---- MODULE Spec2Model ----
(***************************************************************************)
(* Model of nordic/nor.py: the dictionary search engine.                   *)
(*                                                                         *)
(* A text is a sequence of one-character strings.  Non-ASCII characters    *)
(* of the dictionary are written with ASCII names: "sup1".."sup4" are the  *)
(* superscript digits, "bullet" is the round bullet marker, "aa", "ae" and  *)
(* "oe" are the letters a-ring, ae and o-slash ("AA" the capital a-ring).  *)
(* The document                                                            *)
(* (content.split('\n')) is a sequence of such lines; line indices are     *)
(* 1-based here and 0-based in the source.                                 *)
(***************************************************************************)
EXTENDS Integers, Sequences, FiniteSets, TLC

VARIABLES
    config_file,        \* the YAML settings file: "missing" or a dictionary
    isatty,             \* sys.stdin.isatty()
    query,              \* the command and its term (argv, or a stdin line)
    content,            \* the dictionary text, as its list of lines
    settings,           \* the settings dictionary main() works with
    pc,                 \* position in main(): "start", "ready", "done"
    matches_to_print,   \* the line indices the query selected, in result order
    output,             \* what was printed, one record per print call
    session             \* the locals of run_flashcards and run_quiz

vars == <<config_file, isatty, query, content, settings, pc, matches_to_print, output, session>>

----------------------------------------------------------------------------
(* Bounds of the model *)

MaxLines == 2       \* lines of a document searched by headword
MaxFullLines == 3   \* lines of a document searched by free text
MaxEngLines == 2    \* lines of a document searched on the English side
MaxListLines == 2   \* lines of a document listed by category
MaxRandomLines == 3 \* lines of a document sampled at random
MaxCount == 3       \* the largest count of a random-sample request
MaxHeaderLines == 3 \* lines of a document searched for its letter headers
MaxTextLen == 5     \* characters of a text given to the highlight functions
MaxFlashLines == 3  \* lines of a document studied with flashcards
MaxFlashCount == 2  \* the largest word count of a flashcard request
MaxQuizCount == 0   \* the largest word count of a quiz request
MaxFlashRounds == 3 \* rounds of a flashcard session
MaxQuizRounds == 2  \* rounds of a quiz session
MaxInvalid == 1     \* keys other than a letter or Ctrl+C per question

----------------------------------------------------------------------------
(* Strings *)

\* str.lower() on one character
LowerChar(c) ==
    CASE c = "A" -> "a"
      [] c = "B" -> "b"
      [] c = "C" -> "c"
      [] c = "X" -> "x"
      [] c = "Z" -> "z"
      [] c = "AA" -> "aa"
      [] OTHER -> c

\* str.lower()
Lower(s) == [k \in 1..Len(s) |-> LowerChar(s[k])]

\* \s of the regular expressions, and the characters str.strip() removes
IsSpace(c) == c = " "

\* s.startswith(p)
StartsWith(s, p) ==
    /\ Len(p) <= Len(s)
    /\ \A k \in 1..Len(p) : s[k] = p[k]

\* s.endswith(p)
EndsWith(s, p) ==
    /\ Len(p) <= Len(s)
    /\ \A k \in 1..Len(p) : s[Len(s) - Len(p) + k] = p[k]

\* p occurs in s at position k
OccursAt(s, p, k) ==
    /\ k >= 1
    /\ k + Len(p) - 1 <= Len(s)
    /\ \A m \in 1..Len(p) : s[k + m - 1] = p[m]

\* p in s
Contains(s, p) == \E k \in 1..(Len(s) + 1) : OccursAt(s, p, k)

\* s.strip() == ''
IsBlank(s) == \A k \in 1..Len(s) : IsSpace(s[k])

\* enumerate(lines): the line indices in document order
LineIndices(lines) == [k \in 1..Len(lines) |-> k]

\* the members of a set of integers in increasing order
Ascending(S) ==
    [k \in 1..Cardinality(S) |-> CHOOSE i \in S : Cardinality({j \in S : j < i}) = k - 1]

----------------------------------------------------------------------------
(* normalize_headword, word_matches *)

SuperDigits == {"sup1", "sup2", "sup3", "sup4"}

IsSuperDigit(c) == c \in SuperDigits

NotSuperDigit(c) == ~IsSuperDigit(c)

\* re.sub of the four superscript digits by ''
normalize_headword(head_term) == SelectSeq(head_term, NotSuperDigit)

\* search_term[1:-1]
Inner(s) == IF Len(s) <= 2 THEN << >> ELSE SubSeq(s, 2, Len(s) - 1)

\* search_term[1:]
Tail1(s) == IF Len(s) <= 1 THEN << >> ELSE SubSeq(s, 2, Len(s))

\* search_term[:-1]
Front1(s) == IF Len(s) <= 1 THEN << >> ELSE SubSeq(s, 1, Len(s) - 1)

\* word_matches with the leading-'@' form matched as a prefix only
word_matches_leading_prefix(head_term, search_term) ==
    LET normalized_head == Lower(normalize_headword(head_term))
    IN  IF StartsWith(search_term, <<"@">>) /\ EndsWith(search_term, <<"@">>)
        THEN Contains(normalized_head, Lower(Inner(search_term)))
        ELSE IF StartsWith(search_term, <<"@">>)
        THEN StartsWith(normalized_head, Lower(Tail1(search_term)))
        ELSE IF EndsWith(search_term, <<"@">>)
        THEN StartsWith(normalized_head, Lower(Front1(search_term)))
        ELSE \/ normalized_head = Lower(search_term)
             \/ StartsWith(normalized_head, Lower(search_term))

\* word_matches with the trailing-'@' form matched anywhere in the headword
word_matches_trailing_anywhere(head_term, search_term) ==
    LET normalized_head == Lower(normalize_headword(head_term))
    IN  IF StartsWith(search_term, <<"@">>) /\ EndsWith(search_term, <<"@">>)
        THEN Contains(normalized_head, Lower(Inner(search_term)))
        ELSE IF StartsWith(search_term, <<"@">>)
        THEN Contains(normalized_head, Lower(Tail1(search_term)))
        ELSE IF EndsWith(search_term, <<"@">>)
        THEN Contains(normalized_head, Lower(Front1(search_term)))
        ELSE \/ normalized_head = Lower(search_term)
             \/ StartsWith(normalized_head, Lower(search_term))

word_matches(head_term, search_term) ==
    LET normalized_head == Lower(normalize_headword(head_term))
    IN  IF StartsWith(search_term, <<"@">>) /\ EndsWith(search_term, <<"@">>)
        THEN Contains(normalized_head, Lower(Inner(search_term)))
        ELSE IF StartsWith(search_term, <<"@">>)
        THEN Contains(normalized_head, Lower(Tail1(search_term)))
        ELSE IF EndsWith(search_term, <<"@">>)
        THEN StartsWith(normalized_head, Lower(Front1(search_term)))
        ELSE \/ normalized_head = Lower(search_term)
             \/ StartsWith(normalized_head, Lower(search_term))

----------------------------------------------------------------------------
\* main_entry_pattern: optional whitespace, a bullet ('-' or the round bullet),
\* whitespace, up to two asterisks, group 1 = a run of characters that are
\* neither whitespace nor asterisk, an optional pair of asterisks, and
\* group 2 = the rest of the line.

\* the first position >= k of line that holds no whitespace (Len + 1 if none)
SkipSpace(line, k) ==
    CHOOSE j \in k..(Len(line) + 1) :
        /\ j = Len(line) + 1 \/ ~IsSpace(line[j])
        /\ \A m \in k..(j - 1) : IsSpace(line[m])

\* the first position >= k of line that holds whitespace or '*' (Len + 1 if none)
SkipToken(line, k) ==
    CHOOSE j \in k..(Len(line) + 1) :
        /\ j = Len(line) + 1 \/ IsSpace(line[j]) \/ line[j] = "*"
        /\ \A m \in k..(j - 1) : ~IsSpace(line[m]) /\ line[m] # "*"

IsBullet(c) == c \in {"-", "bullet"}

\* how many of the two optional asterisks stand at position k
StarsAt(line, k) ==
    IF OccursAt(line, <<"*", "*">>, k) THEN 2
    ELSE IF OccursAt(line, <<"*">>, k) THEN 1
    ELSE 0

\* the groups of the match with the bullet at p1, the token of group 1 from
\* p4 to before p5, and the whitespace after the bullet ending before p3
MainEntryGroups(line, p1, p3, p4, p5) ==
    IF /\ p1 <= Len(line)
       /\ IsBullet(line[p1])
       /\ p3 > p1 + 1
       /\ p4 <= Len(line)
       /\ p5 > p4
    THEN [ok |-> TRUE,
          head |-> SubSeq(line, p4, p5 - 1),
          rest |-> SubSeq(line, IF OccursAt(line, <<"*", "*">>, p5) THEN p5 + 2 ELSE p5,
                          Len(line))]
    ELSE [ok |-> FALSE, head |-> << >>, rest |-> << >>]

\* re.match(main_entry_pattern, line): ok, group(1) and group(2).  Every
\* quantifier but the last is greedy and the lazy tail accepts any rest, so
\* the match, when there is one, is the greedy one.
MainEntryMatch(line) ==
    LET p1 == SkipSpace(line, 1)
        p3 == SkipSpace(line, p1 + 1)
        p4 == p3 + StarsAt(line, p3)
        p5 == SkipToken(line, p4)
    IN  MainEntryGroups(line, p1, p3, p4, p5)

\* head_term.strip('*')
StripStars(s) ==
    LET keep == {k \in 1..Len(s) : s[k] # "*"}
    IN  IF keep = {} THEN << >>
        ELSE SubSeq(s, CHOOSE a \in keep : \A b \in keep : a <= b,
                       CHOOSE a \in keep : \A b \in keep : a >= b)

\* match.group(1).strip('*') of a main-entry line
HeadTerm(line) == StripStars(MainEntryMatch(line).head)

\* match and match.group(1): group 1 of a match is never empty
IsMainEntry(line) == MainEntryMatch(line).ok

----------------------------------------------------------------------------
(* Rendering: termcolor.colored and the markup-to-colour idiom *)

\* the SGR codes termcolor uses for the default colours of get_settings
ColorCode(color) ==
    CASE color = "light_green" -> <<"9", "2">>
      [] color = "yellow" -> <<"3", "3">>
      [] color = "grey" -> <<"3", "0">>
      [] color = "on_yellow" -> <<"4", "3">>

Sgr(code) == <<"ESC", "[">> \o code \o <<"m">>

\* colored(text, color): the escape sequence, the text, the reset sequence
colored(text, color) == Sgr(ColorCode(color)) \o text \o Sgr(<<"0">>)

\* colored(text, settings['colors']['match'], 'on_' + highlight_background)
colored_match(text) ==
    Sgr(ColorCode("on_yellow")) \o Sgr(ColorCode("grey")) \o text \o Sgr(<<"0">>)

\* s[a:b] with 1-based inclusive bounds, empty when a > b
Slice(s, a, b) == IF a > b THEN << >> ELSE SubSeq(s, a, b)

\* text.find(p, from): the first position >= from where p occurs, 0 if none
Find(s, p, from) ==
    IF \E k \in from..(Len(s) + 1) : OccursAt(s, p, k)
    THEN CHOOSE k \in from..(Len(s) + 1) :
            /\ OccursAt(s, p, k)
            /\ \A m \in from..(k - 1) : ~OccursAt(s, p, m)
    ELSE 0

\* re.findall of delim, lazy anything, delim: the inner texts of the leftmost
\* non-overlapping delimiter pairs, scanning from position from
RECURSIVE FindAll(_, _, _)
FindAll(text, delim, from) ==
    LET d == Len(delim)
        Closed(open, close) ==
            IF open = 0 \/ close = 0 THEN << >>
            ELSE <<Slice(text, open + d, close - 1)>> \o FindAll(text, delim, close + d)
        Opened(open) == Closed(open, IF open = 0 THEN 0 ELSE Find(text, delim, open + d))
    IN  Opened(Find(text, delim, from))

\* re.sub of delim, lazy anything, delim by '': text without its delimiter
\* pairs and what they enclose
RECURSIVE RemoveSpans(_, _, _)
RemoveSpans(text, delim, from) ==
    LET d == Len(delim)
        Closed(open, close) ==
            IF open = 0 \/ close = 0 THEN Slice(text, from, Len(text))
            ELSE Slice(text, from, open - 1) \o RemoveSpans(text, delim, close + d)
        Opened(open) == Closed(open, IF open = 0 THEN 0 ELSE Find(text, delim, open + d))
    IN  Opened(Find(text, delim, from))

\* text.replace(old, new) for a non-empty old
RECURSIVE Replace(_, _, _, _)
Replace(text, old, new, from) ==
    LET Found(at) ==
            IF at = 0 THEN Slice(text, from, Len(text))
            ELSE Slice(text, from, at - 1) \o new \o Replace(text, old, new, at + Len(old))
    IN  Found(Find(text, old, from))

\* for part in parts: text = text.replace(delim + part + delim, colored(part, color))
RECURSIVE ReplaceParts(_, _, _, _, _)
ReplaceParts(text, parts, k, delim, color) ==
    IF k > Len(parts) THEN text
    ELSE ReplaceParts(Replace(text, delim \o parts[k] \o delim, colored(parts[k], color), 1),
                      parts, k + 1, delim, color)

\* bold parts to the headword colour, then italic parts to the grammar colour
MarkupToColor(text) ==
    LET Italic(bold) == ReplaceParts(bold, FindAll(bold, <<"*">>, 1), 1, <<"*">>, "yellow")
    IN  Italic(ReplaceParts(text, FindAll(text, <<"*", "*">>, 1), 1, <<"*", "*">>, "light_green"))

\* the highlight loop: the parts list built from every occurrence of the
\* (non-empty) term in text, compared in lower case.  Matched parts get the
\* match colours; the stretches between them are kept as they are
\* (highlight_text) or get the headword colour (the headword loop of
\* fulltext_search)
RECURSIVE HighlightLoop(_, _, _, _)
HighlightLoop(text, search_term, last_end, head) ==
    LET plain(t) == IF head THEN colored(t, "light_green") ELSE t
        Found(start) ==
            IF start = 0 THEN plain(Slice(text, last_end, Len(text)))
            ELSE plain(Slice(text, last_end, start - 1))
                 \o colored_match(Slice(text, start, start + Len(search_term) - 1))
                 \o HighlightLoop(text, search_term, start + Len(search_term), head)
    IN  Found(Find(Lower(text), Lower(search_term), last_end))

\* highlight_text(text, search_term, settings) for a non-empty search_term;
\* with an empty one the loop never advances (see FulltextDiverges)
highlight_text(text, search_term) ==
    IF text = << >> THEN text
    ELSE HighlightLoop(MarkupToColor(text), search_term, 1, FALSE)

\* s.strip('@')
StripAt(s) ==
    LET keep == {k \in 1..Len(s) : s[k] # "@"}
    IN  IF keep = {} THEN << >>
        ELSE SubSeq(s, CHOOSE a \in keep : \A b \in keep : a <= b,
                       CHOOSE a \in keep : \A b \in keep : a >= b)

\* highlight_match(word, search_term, settings) with tatoeba = False
highlight_match(word, search_term) ==
    IF ~StartsWith(search_term, <<"@">>) THEN colored(word, "light_green")
    ELSE LET Parts(match_start, match_end) ==
                 IF match_start = 0 THEN colored(word, "light_green")
                 ELSE colored(Slice(word, 1, match_start - 1), "light_green")
                      \o colored_match(Slice(word, match_start, match_end - 1))
                      \o colored(Slice(word, match_end, Len(word)), "light_green")
             Start(clean_search, match_start) ==
                 Parts(match_start, match_start + Len(clean_search))
             Clean(clean_search) == Start(clean_search, Find(Lower(word), clean_search, 1))
         IN  Clean(Lower(StripAt(search_term)))

\* s.rstrip()
RStrip(s) ==
    LET keep == {k \in 1..Len(s) : ~IsSpace(s[k])}
    IN  IF keep = {} THEN << >>
        ELSE SubSeq(s, 1, CHOOSE a \in keep : \A b \in keep : a >= b)

\* len(s) - len(s.lstrip())
Indent(s) == SkipSpace(s, 1) - 1

----------------------------------------------------------------------------
(* Settings: load_config, get_settings *)

SettingKeys == {"fallback_to_prefix", "silent_fail"}

\* a dictionary over some of the boolean setting keys (the colour and count
\* entries do not influence the search and are left out)
Dicts == UNION {[D -> BOOLEAN] : D \in SUBSET SettingKeys}

\* settings.get(key, default)
Get(d, key, default) == IF key \in DOMAIN d THEN d[key] ELSE default

\* d[key] = value
Put(d, key, value) == [x \in (DOMAIN d) \cup {key} |-> IF x = key THEN value ELSE d[x]]

\* default_settings of load_config
default_settings ==
    [fallback_to_prefix |-> TRUE, silent_fail |-> FALSE, random_word_count |-> 1,
     flashcard_count |-> 10, quiz_word_count |-> 10]

\* load_config(config_file): the dictionary of the file (an empty or invalid
\* file gives {}); a missing file is created with default_settings
load_config(file) ==
    IF file.exists
    THEN [config |-> file.data, file |-> file]
    ELSE [config |-> default_settings, file |-> [exists |-> TRUE, data |-> default_settings]]

\* get_settings(): load_config, then only the colours are completed
get_settings(file) == load_config(file)

----------------------------------------------------------------------------
(* search_dictionary: plain terms and '@' wildcards *)

UpperChar(c) ==
    CASE c = "a" -> "A"
      [] c = "b" -> "B"
      [] c = "c" -> "C"
      [] c = "e" -> "E"
      [] c = "h" -> "H"
      [] c = "x" -> "X"
      [] OTHER -> c

\* one print call: what it prints (kind), the document line it renders (0 if
\* none) and the text
Event(kind, line, text) == [kind |-> kind, line |-> line, text |-> text]

\* is_wildcard = '@' in search_term
is_wildcard(search_term) == Contains(search_term, <<"@">>)

\* exact_matches comparing the headword as written, superscript digits kept
exact_matches_unnormalized(lines, search_term) ==
    LET Test(i) ==
            /\ IsMainEntry(lines[i])
            /\ ~is_wildcard(search_term)
            /\ Lower(HeadTerm(lines[i])) = Lower(search_term)
    IN  SelectSeq(LineIndices(lines), Test)

\* first pass, non-wildcard branch: exact match on the normalized headword
exact_matches(lines, search_term) ==
    LET Test(i) ==
            /\ IsMainEntry(lines[i])
            /\ ~is_wildcard(search_term)
            /\ Lower(normalize_headword(HeadTerm(lines[i]))) = Lower(search_term)
    IN  SelectSeq(LineIndices(lines), Test)

\* partial_matches with the fallback matching anywhere in the headword
partial_matches_anywhere(lines, search_term) ==
    LET Test(i) ==
            /\ IsMainEntry(lines[i])
            /\ IF is_wildcard(search_term)
               THEN word_matches(HeadTerm(lines[i]), search_term)
               ELSE /\ Lower(normalize_headword(HeadTerm(lines[i]))) # Lower(search_term)
                    /\ Contains(Lower(normalize_headword(HeadTerm(lines[i]))), Lower(search_term))
    IN  SelectSeq(LineIndices(lines), Test)

\* first pass: word_matches for a wildcard, else prefix match where the
\* exact match failed
partial_matches(lines, search_term) ==
    LET Test(i) ==
            /\ IsMainEntry(lines[i])
            /\ IF is_wildcard(search_term)
               THEN word_matches(HeadTerm(lines[i]), search_term)
               ELSE /\ Lower(normalize_headword(HeadTerm(lines[i]))) # Lower(search_term)
                    /\ StartsWith(Lower(normalize_headword(HeadTerm(lines[i]))), Lower(search_term))
    IN  SelectSeq(LineIndices(lines), Test)

\* ^[-bullet]\s+ matches and ^\s{3}[-bullet]\s+ does not
TopBullet(line) ==
    /\ Len(line) >= 2 /\ IsBullet(line[1]) /\ IsSpace(line[2])
    /\ ~(/\ Len(line) >= 5
         /\ IsSpace(line[1]) /\ IsSpace(line[2]) /\ IsSpace(line[3])
         /\ IsBullet(line[4]) /\ IsSpace(line[5]))

\* the sub-entry loop of the display: the first line after i that is a
\* top-level bullet line or blank (Len + 1 if none)
SubEnd(lines, i) ==
    CHOOSE j \in (i + 1)..(Len(lines) + 1) :
        /\ j = Len(lines) + 1 \/ TopBullet(lines[j]) \/ IsBlank(lines[j])
        /\ \A m \in (i + 1)..(j - 1) : ~TopBullet(lines[m]) /\ ~IsBlank(lines[m])

\* the sub-entry lines printed under the entry at line i
SubEvents(lines, i) ==
    [k \in 1..(SubEnd(lines, i) - i - 1) |->
        Event("sub", i + k, <<"\n", " ", " ", " ">> \o RStrip(MarkupToColor(lines[i + k])))]

\* what the display loop prints for the entry at line i: the letter header,
\* the blank line between entries, the entry line and its sub-entry lines
EntryEvents(lines, i, search_term, m, new_header, first) ==
    (IF new_header THEN <<Event("header", i, <<UpperChar(StripStars(m.head)[1])>>)>> ELSE << >>)
    \o (IF first THEN << >> ELSE <<Event("newline", 0, << >>)>>)
    \o <<Event("entry", i,
               <<"-", " ">>
               \o (IF is_wildcard(search_term) /\ StartsWith(search_term, <<"@">>)
                   THEN highlight_match(StripStars(m.head), search_term)
                   ELSE colored(StripStars(m.head), "light_green"))
               \o MarkupToColor(m.rest))>>
    \o SubEvents(lines, i)

\* show_headers with the test of is_wildcard: '@' anywhere in the term
show_headers_anywhere(search_term) == Contains(search_term, <<"@">>)

\* show_headers = search_term.startswith('@')
show_headers(search_term) == StartsWith(search_term, <<"@">>)

\* the display loop over matches_to_print
RECURSIVE PrintEntries(_, _, _, _, _, _)
PrintEntries(lines, ms, k, search_term, current_letter, is_first_entry) ==
    IF k > Len(ms) THEN << >>
    ELSE
    LET Entry(first_letter, new_header) ==
            EntryEvents(lines, ms[k], search_term, MainEntryMatch(lines[ms[k]]),
                        new_header, new_header \/ is_first_entry)
            \o PrintEntries(lines, ms, k + 1, search_term,
                            IF new_header THEN first_letter ELSE current_letter, FALSE)
        Letter(first_letter) ==
            Entry(first_letter, show_headers(search_term) /\ first_letter # current_letter)
    IN  Letter(UpperChar(HeadTerm(lines[ms[k]])[1]))

\* search_dictionary(content, search_term, settings) for a term that does not
\* start with '%': the matches selected and everything printed
search_headwords(lines, search_term, s) ==
    LET Selected(exact, partial, fallback, ms) ==
            IF ~is_wildcard(search_term) /\ exact = << >> /\ ~fallback
            THEN [matches |-> << >>,
                  out |-> IF Get(s, "silent_fail", FALSE) THEN << >>
                          ELSE <<Event("notice", 0, search_term)>>]
            ELSE [matches |-> [k \in 1..Len(ms) |-> [line |-> ms[k], text |-> lines[ms[k]]]],
                  out |-> (IF ~is_wildcard(search_term) /\ exact = << >>
                           THEN <<Event("banner", 0, << >>)>> ELSE << >>)
                          \o PrintEntries(lines, ms, 1, search_term, "", TRUE)
                          \o <<Event("newline", 0, << >>)>>]
        Fallback(exact, partial, fallback) ==
            Selected(exact, partial, fallback,
                     IF is_wildcard(search_term) THEN partial
                     ELSE IF exact # << >> THEN exact
                     ELSE IF fallback THEN partial
                     ELSE << >>)
        FirstPass(exact, partial) ==
            Fallback(exact, partial, partial # << >> /\ Get(s, "fallback_to_prefix", FALSE))
    IN  FirstPass(exact_matches(lines, search_term), partial_matches(lines, search_term))

----------------------------------------------------------------------------
(* fulltext_search, english_search *)

\* subentry_pattern: two or three whitespace characters, then two asterisks
IsSubentry(line) ==
    \/ /\ Len(line) >= 4
       /\ IsSpace(line[1]) /\ IsSpace(line[2]) /\ line[3] = "*" /\ line[4] = "*"
    \/ /\ Len(line) >= 5
       /\ IsSpace(line[1]) /\ IsSpace(line[2]) /\ IsSpace(line[3])
       /\ line[4] = "*" /\ line[5] = "*"

\* the inner loops "while j < len(lines) and not re.match(main_entry_pattern,
\* lines[j])": the first main-entry line after i (Len + 1 if none)
BlockEnd(lines, i) ==
    CHOOSE j \in (i + 1)..(Len(lines) + 1) :
        /\ j = Len(lines) + 1 \/ IsMainEntry(lines[j])
        /\ \A m \in (i + 1)..(j - 1) : ~IsMainEntry(lines[m])

\* a result of the scan: the line index and the rendered line
Hit(i, text) == [line |-> i, text |-> text]

\* the rendered headword line of a free-text match
FulltextMain(line, search_term) ==
    LET Render(head_term, rest) ==
            <<"-", " ">>
            \o (IF Contains(Lower(head_term), Lower(search_term))
                THEN HighlightLoop(head_term, search_term, 1, TRUE)
                ELSE colored(head_term, "light_green"))
            \o highlight_text(rest, search_term)
    IN  Render(HeadTerm(line), MainEntryMatch(line).rest)

\* the block of a matched main entry at line i: the non-blank lines that do
\* not use the sub-entry pattern are appended as the block is walked, the
\* matching sub-entry lines are collected and appended after the walk
FulltextBlock(lines, search_term, i) ==
    LET Other(j) == ~IsBlank(lines[j]) /\ ~IsSubentry(lines[j])
        Sub(j) ==
            /\ ~IsBlank(lines[j])
            /\ IsSubentry(lines[j])
            /\ Contains(Lower(lines[j]), Lower(search_term))
        render(js) == [k \in 1..Len(js) |-> Hit(js[k], highlight_text(lines[js[k]], search_term))]
        Walk(block) == render(SelectSeq(block, Other) \o SelectSeq(block, Sub))
    IN  Walk([k \in 1..(BlockEnd(lines, i) - i - 1) |-> i + k])

\* the scan of fulltext_search from line i on, for a non-empty search_term
RECURSIVE FulltextScan(_, _, _)
FulltextScan(lines, search_term, i) ==
    IF i > Len(lines) THEN << >>
    ELSE
    LET Line(line, m) ==
            IF m.ok
            THEN IF \/ Contains(Lower(StripStars(m.head)), Lower(search_term))
                    \/ Contains(Lower(m.rest), Lower(search_term))
                 THEN <<Hit(i, FulltextMain(line, search_term))>>
                      \o FulltextBlock(lines, search_term, i)
                      \o FulltextScan(lines, search_term, BlockEnd(lines, i))
                 ELSE FulltextScan(lines, search_term, i + 1)
            ELSE IF IsSubentry(line) /\ Contains(Lower(line), Lower(search_term))
            THEN <<Hit(i, highlight_text(line, search_term))>>
                 \o FulltextScan(lines, search_term, i + 1)
            ELSE FulltextScan(lines, search_term, i + 1)
    IN  Line(lines[i], MainEntryMatch(lines[i]))

\* With an empty search_term every find() of the highlight loops returns
\* last_end and last_end never advances: the first main-entry or sub-entry
\* line the scan meets makes fulltext_search loop forever
FulltextDiverges(lines, search_term) ==
    /\ search_term = << >>
    /\ \E i \in 1..Len(lines) : IsMainEntry(lines[i]) \/ IsSubentry(lines[i])

\* the display loop of fulltext_search and english_search
RECURSIVE DisplayMatches(_, _, _)
DisplayMatches(ms, k, current_indent) ==
    IF k > Len(ms) THEN << >>
    ELSE
    LET Show(line) ==
            (IF StartsWith(line, <<" ", " ", " ">>)
             THEN <<Event("line", ms[k].line, <<"\n">> \o RStrip(line))>>
             ELSE (IF current_indent = 0 THEN <<Event("newline", 0, << >>)>> ELSE << >>)
                  \o <<Event("line", ms[k].line, RStrip(line))>>)
            \o DisplayMatches(ms, k + 1, Indent(line))
    IN  Show(ms[k].text)

\* fulltext_search(content, search_term, settings) where it terminates
fulltext_search(lines, search_term, s) ==
    LET Display(ms) ==
            IF ms = << >>
            THEN [matches |-> << >>,
                  out |-> IF Get(s, "silent_fail", FALSE) THEN << >>
                          ELSE <<Event("notice", 0, search_term)>>]
            ELSE [matches |-> ms, out |-> DisplayMatches(ms, 1, 0)]
    IN  Display(FulltextScan(lines, search_term, 1))

\* the characters \w matches
WordChars ==
    {"a", "b", "c", "d", "e", "f", "g", "h", "i", "j", "k", "l", "m", "n", "o",
     "p", "q", "r", "s", "t", "u", "v", "w", "x", "y", "z", "A", "B", "C", "X",
     "0", "1", "2", "3", "4", "5", "6", "7", "8", "9", "_"} \cup SuperDigits

\* \w at position k of text (false outside the text)
IsWordAt(text, k) == k >= 1 /\ k <= Len(text) /\ text[k] \in WordChars

\* \b between positions k - 1 and k of text
Boundary(text, k) == IsWordAt(text, k - 1) # IsWordAt(text, k)

\* word_pattern (\b, the escaped term, \b) matches text at position k
WordAt(text, word, k) ==
    /\ OccursAt(text, word, k)
    /\ Boundary(text, k)
    /\ Boundary(text, k + Len(word))

\* re.search(word_pattern, text)
WordSearch(text, word) == \E k \in 1..(Len(text) + 1) : WordAt(text, word, k)

\* re.sub(word_pattern, colored(m.group(), match colours), text, IGNORECASE)
RECURSIVE HighlightWords(_, _, _)
HighlightWords(text, word, from) ==
    LET Found(at, next) ==
            Slice(text, from, at - 1)
            \o colored_match(Slice(text, at, next - 1))
            \o (IF word # << >> THEN HighlightWords(text, word, next)
                ELSE IF at > Len(text) THEN << >>
                ELSE <<text[at]>> \o HighlightWords(text, word, at + 1))
        First(at) == Found(at, at + Len(word))
        Hits(hits) ==
            IF hits = {} THEN Slice(text, from, Len(text))
            ELSE First(CHOOSE k \in hits : \A m \in hits : k <= m)
    IN  Hits({k \in from..(Len(text) + 1) : WordAt(Lower(text), word, k)})

\* english_text with only the bold text removed
english_text_bold_only(text) == RemoveSpans(text, <<"*", "*">>, 1)

\* bold text removed, then italic text removed
english_text(text) == RemoveSpans(RemoveSpans(text, <<"*", "*">>, 1), <<"*">>, 1)

\* the sub-entry lines of the block after the main entry at line i whose
\* English text holds the word
EnglishBlock(lines, word, i) ==
    LET Sub(j) ==
            /\ ~IsBlank(lines[j])
            /\ IsSubentry(lines[j])
            /\ WordSearch(Lower(english_text(lines[j])), word)
        render(subs) ==
            [k \in 1..Len(subs) |->
                Hit(subs[k], HighlightWords(MarkupToColor(lines[subs[k]]), word, 1))]
    IN  render(SelectSeq([k \in 1..(BlockEnd(lines, i) - i - 1) |-> i + k], Sub))

\* the scan of english_search from line i on; word is search_term.lower()
RECURSIVE EnglishScan(_, _, _)
EnglishScan(lines, word, i) ==
    IF i > Len(lines) THEN << >>
    ELSE
    LET Line(m) ==
            IF m.ok
            THEN (IF WordSearch(Lower(english_text(m.rest)), word)
                  THEN <<Hit(i, <<"-", " ">> \o colored(StripStars(m.head), "light_green")
                                  \o HighlightWords(MarkupToColor(m.rest), word, 1))>>
                  ELSE << >>)
                 \o EnglishBlock(lines, word, i)
                 \o EnglishScan(lines, word, i + 1)
            ELSE EnglishScan(lines, word, i + 1)
    IN  Line(MainEntryMatch(lines[i]))

\* english_search(content, search_term, settings)
english_search(lines, search_term, s) ==
    LET Display(ms) ==
            IF ms = << >>
            THEN [matches |-> << >>,
                  out |-> IF Get(s, "silent_fail", FALSE) THEN << >>
                          ELSE <<Event("notice", 0, search_term)>>]
            ELSE [matches |-> ms,
                  out |-> DisplayMatches(ms, 1, 0) \o <<Event("newline", 0, << >>)>>]
    IN  Display(EnglishScan(lines, Lower(search_term), 1))

\* search_dictionary(content, search_term, settings): a term that starts with
\* '%' goes to fulltext_search without the '%'
search_dictionary(lines, search_term, s) ==
    IF StartsWith(search_term, <<"%">>)
    THEN IF FulltextDiverges(lines, Tail1(search_term))
         THEN [matches |-> << >>, out |-> << >>, diverged |-> TRUE]
         ELSE [diverged |-> FALSE] @@ fulltext_search(lines, Tail1(search_term), s)
    ELSE [diverged |-> FALSE] @@ search_headwords(lines, search_term, s)

----------------------------------------------------------------------------
(* list_category and get_random_words *)

\* re.match of main_entry_pattern of list_category: '- ' at the line start
IsListEntry(line) == StartsWith(line, <<"-", " ">>)

\* the first position >= k of line that holds '*' (Len + 1 if none)
SkipNoStar(line, k) ==
    CHOOSE j \in k..(Len(line) + 1) :
        /\ j = Len(line) + 1 \/ line[j] = "*"
        /\ \A m \in k..(j - 1) : line[m] # "*"

\* two asterisks at k, a non-empty run without asterisk, two asterisks
BoldWordAt(line, k) ==
    /\ OccursAt(line, <<"*", "*">>, k)
    /\ SkipNoStar(line, k + 2) > k + 2
    /\ OccursAt(line, <<"*", "*">>, SkipNoStar(line, k + 2))

\* word_match = re.search of that pattern: ok and group(1) of the leftmost match
word_match(line) ==
    LET First(k) == [ok |-> TRUE, word |-> SubSeq(line, k + 2, SkipNoStar(line, k + 2) - 1)]
        Found(ks) ==
            IF ks = {} THEN [ok |-> FALSE, word |-> << >>]
            ELSE First(CHOOSE k \in ks : \A m \in ks : k <= m)
    IN  Found({k \in 1..Len(line) : BoldWordAt(line, k)})

\* re.search of '*subst.', optional whitespace, the gender, '*'
SubstTag(line, gender) ==
    \E k \in 1..Len(line) :
        /\ OccursAt(line, <<"*", "s", "u", "b", "s", "t", ".">>, k)
        /\ OccursAt(line, gender \o <<"*">>, SkipSpace(line, k + 7))

\* the strings of the two lists tested with "in": the pattern sources,
\* backslashes included
TypePatterns ==
    {<<"\\", "*", "s", "u", "b", "s", "t", "\\", ".">>,
     <<"\\", "*", "a", "d", "j", "\\", ".">>,
     <<"\\", "*", "v", "e", "r", "b", "\\", "*">>,
     <<"\\", "*", "a", "d", "v", "\\", ".">>}

GenderPatterns ==
    {<<"\\", "*", "s", "u", "b", "s", "t", "\\", ".", "\\", "s", "*">> \o g \o <<"\\", "*">> :
        g \in {<<"m">>, <<"f">>, <<"m", "/", "f">>, <<"n">>}}

\* has_type / has_gender: any(pattern in line for pattern in patterns)
AnyIn(patterns, line) == \E pattern \in patterns : Contains(line, pattern)

\* is_match for a line with a word_match, under a category that is not a
\* random-sample request (main() passes no other)
is_match(category, line) ==
    CASE category = <<"m">> -> SubstTag(line, <<"m">>)
      [] category = <<"f">> -> SubstTag(line, <<"f">>)
      [] category = <<"c">> -> SubstTag(line, <<"m", "/", "f">>)
      [] category = <<"n">> -> SubstTag(line, <<"n">>)
      [] category = <<"a", "d", "j">> -> Contains(line, <<"*", "a", "d", "j", ".", "*">>)
      [] category = <<"v">> -> Contains(line, <<"*", "v", "e", "r", "b", "*">>)
      [] category = <<"a", "d", "v">> -> Contains(line, <<"*", "a", "d", "v", ".", "*">>)
      [] category = <<"u">> -> ~AnyIn(TypePatterns, line)
      [] category = <<"w">> ->
            /\ Contains(line, <<"*", "s", "u", "b", "s", "t", ".", "*">>)
            /\ ~AnyIn(GenderPatterns, line)
      [] OTHER -> FALSE

\* entry_lines: line i and the non-blank lines after it up to the next
\* line that starts with '- '
entry_lines(lines, i) ==
    LET Stop(end) == <<i>> \o Ascending({j \in (i + 1)..(end - 1) : ~IsBlank(lines[j])})
    IN  Stop(CHOOSE j \in (i + 1)..(Len(lines) + 1) :
                /\ j = Len(lines) + 1 \/ IsListEntry(lines[j])
                /\ \A m \in (i + 1)..(j - 1) : ~IsListEntry(lines[m]))

\* matches of list_category: (word_match.group(1).lower(), entry_lines) of
\* the matching entries, in document order
category_matches(lines, category) ==
    LET Entries(is) ==
            [k \in 1..Len(is) |->
                [word |-> Lower(word_match(lines[is[k]]).word),
                 lines |-> entry_lines(lines, is[k])]]
    IN  Entries(Ascending({i \in 1..Len(lines) :
                    /\ IsListEntry(lines[i])
                    /\ word_match(lines[i]).ok
                    /\ is_match(category, lines[i])}))

\* matches of get_random_words: every entry with a word_match
all_matches(lines) ==
    LET Entries(is) ==
            [k \in 1..Len(is) |->
                [word |-> Lower(word_match(lines[is[k]]).word),
                 lines |-> entry_lines(lines, is[k])]]
    IN  Entries(Ascending({i \in 1..Len(lines) :
                    IsListEntry(lines[i]) /\ word_match(lines[i]).ok}))

\* ord(c) for the characters of the headwords of the model
CharCode(c) ==
    CASE c = " " -> 32
      [] c = "1" -> 49
      [] c = "2" -> 50
      [] c = "3" -> 51
      [] c = "a" -> 97
      [] c = "b" -> 98
      [] c = "c" -> 99
      [] c = "z" -> 122
      [] c = "sup2" -> 178
      [] c = "sup1" -> 185
      [] c = "aa" -> 229
      [] c = "ae" -> 230
      [] c = "oe" -> 248

\* a < b for two strings, as Python compares them
StrLess(a, b) ==
    \E k \in 1..(Len(b)) :
        /\ k <= Len(a) + 1
        /\ \A m \in 1..(k - 1) : a[m] = b[m]
        /\ k = Len(a) + 1 \/ CharCode(a[k]) < CharCode(b[k])

\* sort_key: the letters ae, o-slash and a-ring replaced by zz1, zz2, zz3
sort_key(word) ==
    Replace(Replace(Replace(word, <<"ae">>, <<"z", "z", "1">>, 1),
                    <<"oe">>, <<"z", "z", "2">>, 1),
            <<"aa">>, <<"z", "z", "3">>, 1)

\* matches.sort(key=sort_key): a stable sort
sorted_matches(ms) ==
    LET Rank(k) ==
            1 + Cardinality({j \in 1..Len(ms) : StrLess(sort_key(ms[j].word), sort_key(ms[k].word))})
              + Cardinality({j \in 1..(k - 1) : sort_key(ms[j].word) = sort_key(ms[k].word)})
    IN  [p \in 1..Len(ms) |-> ms[CHOOSE k \in 1..Len(ms) : Rank(k) = p]]

\* what the display loop prints for one line of an entry
ListLineEvent(lines, line_num, first) ==
    IF IsListEntry(lines[line_num])
    THEN LET Heads(heads) ==
                LET Rest(head_term) ==
                        Event("entry", line_num,
                              <<"-", " ">> \o colored(head_term, "light_green")
                              \o MarkupToColor(
                                    Slice(lines[line_num],
                                          Find(lines[line_num], <<"*", "*">> \o head_term \o <<"*", "*">>, 1)
                                             + Len(head_term) + 4,
                                          Len(lines[line_num]))))
                IN  Rest(IF heads = << >> THEN << >> ELSE heads[1])
         IN  (IF first THEN << >> ELSE <<Event("newline", 0, << >>)>>)
             \o <<Heads(FindAll(lines[line_num], <<"*", "*">>, 1))>>
    ELSE <<Event("sub", line_num,
                 <<"\n", " ", " ", " ">> \o RStrip(MarkupToColor(lines[line_num])))>>

\* the display loop of list_category and get_random_words
RECURSIVE ListDisplay(_, _, _, _)
ListDisplay(lines, ms, k, n) ==
    IF k > Len(ms) THEN <<Event("newline", 0, << >>)>>
    ELSE IF n > Len(ms[k].lines) THEN ListDisplay(lines, ms, k + 1, 1)
    ELSE ListLineEvent(lines, ms[k].lines[n], k = 1 /\ n = 1)
         \o ListDisplay(lines, ms, k, n + 1)

\* the entries of ms as the result of the query
ListResult(lines, ms) == [k \in 1..Len(ms) |-> [line |-> ms[k].lines[1], text |-> lines[ms[k].lines[1]]]]

\* list_category(content, settings, category) for a category that is not a
\* random-sample request
list_category(lines, s, category) ==
    LET Listed(ms) == [matches |-> ListResult(lines, ms), out |-> ListDisplay(lines, ms, 1, 1)]
        Matched(ms) ==
            IF ms = << >>
            THEN [matches |-> << >>,
                  out |-> IF Get(s, "silent_fail", FALSE) THEN << >>
                          ELSE <<Event("notice", 0, category)>>]
            ELSE Listed(sorted_matches(ms))
    IN  Matched(category_matches(lines, category))

\* random.sample(matches, count): the arrangements of count distinct matches
Samples(ms, count) ==
    {[k \in 1..count |-> ms[f[k]]] :
        f \in {g \in [1..count -> 1..Len(ms)] : \A a, b \in 1..count : a # b => g[a] # g[b]}}

\* get_random_words(content, settings, count) for count >= 0: the outcomes
\* the sampling can produce
get_random_words(lines, s, count) ==
    LET Sampled(ms, n) ==
            {[matches |-> ListResult(lines, sample), out |-> ListDisplay(lines, sample, 1, 1)] :
                sample \in Samples(ms, n)}
        Matched(ms) ==
            IF ms = << >>
            THEN {[matches |-> << >>,
                   out |-> IF Get(s, "silent_fail", FALSE) THEN << >>
                           ELSE <<Event("notice", 0, << >>)>>]}
            ELSE Sampled(ms, IF count > Len(ms) THEN Len(ms) ELSE count)
    IN  Matched(all_matches(lines))

----------------------------------------------------------------------------
(* Flashcards and quiz *)

\* the elements of seq at the positions of the set S, in ascending order
Pick(seq, S) == [k \in 1..Cardinality(S) |-> seq[Ascending(S)[k]]]

\* random.shuffle(seq): the orders the shuffle can produce
Shuffles(seq) == {[k \in 1..Len(seq) |-> seq[p[k]]] : p \in Permutations(1..Len(seq))}

\* entries of run_flashcards: (word_match.group(1), entry_lines) of every line
\* that starts with '- ' and holds a bold word, in document order; line is
\* the position of the entry in the document
flash_entries(lines) ==
    LET Entries(is) ==
            [k \in 1..Len(is) |->
                [word |-> word_match(lines[is[k]]).word,
                 lines |-> entry_lines(lines, is[k]),
                 line |-> is[k]]]
    IN  Entries(Ascending({i \in 1..Len(lines) :
                    IsListEntry(lines[i]) /\ word_match(lines[i]).ok}))

\* str.strip(chars): s without its leading and trailing characters of chars
StripChars(s, chars) ==
    LET keep == {k \in 1..Len(s) : s[k] \notin chars}
    IN  IF keep = {} THEN << >>
        ELSE SubSeq(s, CHOOSE a \in keep : \A b \in keep : a <= b,
                       CHOOSE a \in keep : \A b \in keep : a >= b)

NotStar(c) == c # "*"

\* get_clean_definition(line): what follows the second '**', without its
\* emphasised spans, without asterisks, stripped of bullets, dashes and blanks
get_clean_definition(line) ==
    LET Clean(definition) ==
            StripChars(StripChars(SelectSeq(RemoveSpans(definition, <<"*">>, 1), NotStar),
                                  {"-", " ", "bullet"}),
                       {" "})
        Parts(first, second) ==
            IF first = 0 \/ second = 0 THEN [ok |-> FALSE, text |-> << >>]
            ELSE [ok |-> TRUE, text |-> Clean(Slice(line, second + 2, Len(line)))]
        Split(first) ==
            Parts(first, IF first = 0 THEN 0 ELSE Find(line, <<"*", "*">>, first + 2))
    IN  Split(Find(line, <<"*", "*">>, 1))

\* re.match of main_entry_pattern of get_headword_entries: optional blanks, a
\* bullet of either kind, blanks, a bold word
IsQuizEntry(line) ==
    LET Bullet(k) ==
            /\ k <= Len(line)
            /\ IsBullet(line[k])
            /\ SkipSpace(line, k + 1) > k + 1
            /\ BoldWordAt(line, SkipSpace(line, k + 1))
    IN  Bullet(SkipSpace(line, 1))

\* get_headword_entries(content): (headword, definition) of every entry line
\* with a non-empty definition, in document order; line is the position of the
\* entry in the document
get_headword_entries(lines) ==
    LET Entries(is) ==
            [k \in 1..Len(is) |->
                [word |-> word_match(lines[is[k]]).word,
                 definition |-> get_clean_definition(lines[is[k]]).text,
                 line |-> is[k]]]
    IN  Entries(Ascending({i \in 1..Len(lines) :
                    /\ IsQuizEntry(lines[i])
                    /\ get_clean_definition(lines[i]).ok
                    /\ get_clean_definition(lines[i]).text # << >>}))

\* len(text.split())
WordCount(text) ==
    Cardinality({k \in 1..Len(text) : ~IsSpace(text[k]) /\ (k = 1 \/ IsSpace(text[k - 1]))})

\* get_short_wrong_definitions(all_entries, correct_def, num_needed,
\* max_words): the lists of definitions the sampling can return
get_short_wrong_definitions(all_entries, correct_def, num_needed, max_words) ==
    LET Sampled(pool) ==
            {[k \in 1..Len(selected) |-> selected[k].definition] :
                selected \in Samples(pool, IF num_needed > Len(pool) THEN Len(pool)
                                           ELSE num_needed)}
        Extended(short_entries) ==
            IF Len(short_entries) < num_needed
            THEN short_entries \o
                 Pick(all_entries, {i \in 1..Len(all_entries) :
                                        all_entries[i].definition # correct_def})
            ELSE short_entries
    IN  Sampled(Extended(Pick(all_entries,
                    {i \in 1..Len(all_entries) :
                        /\ all_entries[i].definition # correct_def
                        /\ WordCount(all_entries[i].definition) <= max_words})))

\* the answer options of run_quiz for correct_def: the wrong definitions and
\* the correct one, shuffled
quiz_options(all_entries, correct_def) ==
    UNION {Shuffles(wrong_defs \o <<correct_def>>) :
             wrong_defs \in get_short_wrong_definitions(all_entries, correct_def, 4, 15)}

\* 'abcde'[options.index(correct_def)], as the position of the letter
correct_letter(options, correct_def) ==
    CHOOSE k \in 1..Len(options) :
        /\ options[k] = correct_def
        /\ \A m \in 1..(k - 1) : options[m] # correct_def

\* the position of the key ch in 'abcde', 0 if it is none of the letters
LetterIndex(ch) ==
    CASE ch = "a" -> 1 [] ch = "b" -> 2 [] ch = "c" -> 3 [] ch = "d" -> 4 [] ch = "e" -> 5
      [] OTHER -> 0

\* "Round N - M words remaining" and the line of instructions
RoundEvents(round_num, remaining) ==
    <<[kind |-> "round", line |-> 0, text |-> << >>, round |-> round_num, remaining |-> remaining],
      Event("instructions", 0, << >>)>>

\* "Word: " and the headword of the entry, shown in round round_num
WordEvent(entry, round_num) ==
    [kind |-> "word", line |-> entry.line, text |-> entry.word, round |-> round_num]

\* the line that tells how the entry was answered in round round_num
MarkEvent(kind, entry, round_num) ==
    [kind |-> kind, line |-> entry.line, text |-> << >>, round |-> round_num]

\* the variant that keeps every word of the round for the next one
next_round_all(not_remembered, still_learning) == not_remembered

\* the words of the next round: those marked for review in this one
next_round(not_remembered, still_learning) == still_learning

\* the value of still_learning after the word entry has been answered
keep_reviewing(still_learning, entry, review) ==
    IF review THEN Append(still_learning, entry) ELSE still_learning

----------------------------------------------------------------------------
(* The inputs of the model *)

\* the documents of 1..n lines drawn from pool
Docs(pool, n) == UNION {[1..k -> pool] : k \in 1..n}

\* lines and terms for plain and wildcard search
SearchPool ==
    {<<"-", " ", "*", "*", "a", "b", "*", "*", " ", "x">>,
     <<"-", " ", "*", "*", "a", "b", "sup1", "*", "*", " ", "y">>,
     <<"-", " ", "*", "*", "A", "b", "c", "*", "*", " ", "z">>,
     <<"bullet", " ", "*", "*", "c", "a", "b", "*", "*", " ", "w">>,
     <<" ", " ", " ", "bullet", " ", "a", "b", " ", "c">>,
     <<" ", " ", "*", "*", "a", "b", "x", "*", "*", " ", "v">>,
     << >>,
     <<"-", " ", "*", "*", "b", " ", "a", "*", "*", " ", "q">>,
     <<"-", " ", "*", "*", "sup1", "*", "*", " ", "x">>}

SearchTerms ==
    {<< >>,
     <<"a", "b">>,
     <<"A", "B">>,
     <<"a">>,
     <<"a", "b", "c">>,
     <<"b">>,
     <<"x">>,
     <<"@", "a", "b">>,
     <<"@", "a", "b", "@">>,
     <<"a", "b", "@">>,
     <<"@", "B">>,
     <<"b", "@">>,
     <<"@", "x">>,
     <<"@">>,
     <<"b", " ", "a">>}

\* lines and terms for the letter headers of the wildcard search
HeaderPool ==
    {<<"-", " ", "*", "*", "a", "b", "*", "*", " ", "x">>,
     <<"-", " ", "*", "*", "A", "b", "c", "*", "*", " ", "z">>,
     <<"-", " ", "*", "*", "b", " ", "a", "*", "*", " ", "q">>}

HeaderTerms == {<<"@">>, <<"@", "a">>, <<"@", "a", "@">>, <<"a", "@">>, <<"a">>}

\* the document and the queries of the end-to-end example: the entry 'hus'
\* with one indented bullet line
HusDocument ==
    <<<<"-", " ", "*", "*", "h", "u", "s", "*", "*", " ", "*", "s", "u", "b", "s", "t", ".", " ", "n", "*", " ", "h", "o", "u", "s", "e">>,
      <<" ", " ", " ", "bullet", " ", "e", "t", " ", "s", "t", "o", "r", "t", " ", "h", "u", "s", " ", "(", "a", " ", "b", "i", "g", " ", "h", "o", "u", "s", "e", ")">>>>

HusTerms ==
    {<<"h", "u", "s">>, <<"h", "u", "s", "@">>, <<"@", "h", "u", "s", "@">>,
     <<"%", "s", "t", "o", "r", "t">>, <<"%", "h", "o", "u", "s", "e">>}

\* lines and terms for free-text search (the terms follow the '%')
FullPool ==
    {<<"-", " ", "*", "*", "a", "b", "*", "*", " ", "*", "n", "*", " ", "x">>,
     <<" ", " ", "*", "*", "a", "b", "c", "*", "*", " ", "y">>,
     <<" ", " ", "n", " ", "b">>,
     <<"-", " ", "*", "*", "A", "b", "sup1", "*", "*", " ", "b">>,
     << >>,
     <<" ", " ", " ", "bullet", " ", "a", "b", " ", "c">>}

FullTerms ==
    {<< >>,
     <<"a", "b">>,
     <<"A", "B">>,
     <<"a">>,
     <<"b">>,
     <<"n", " ", "x">>,
     <<"*">>,
     <<"z", "z">>}

\* lines and terms for English-side search
EngPool ==
    {<<"-", " ", "*", "*", "a", "b", "*", "*", " ", "*", "n", "*", " ", "x">>,
     <<"-", " ", "*", "*", "a", "b", "*", "*", " ", "*", "*", "x", "*", "*", " ", "y", " ", "*", "x", "*">>,
     <<"-", " ", "*", "*", "a", " ", "b", "*", "*", " ", "*", "x", "*", " ", "y">>,
     <<" ", " ", "*", "*", "a", "b", "c", "*", "*", " ", "x", " ", "y">>,
     <<"-", " ", "*", "*", "c", "*", "*", " ", "x", "y", " ", "X">>,
     << >>}

EngTerms ==
    {<<"x">>,
     <<"X">>,
     <<"n">>,
     <<"y">>,
     <<"x", "y">>,
     <<"b">>,
     << >>}

\* the settings file is missing, or holds any dictionary over the two keys
ConfigFiles ==
    {[exists |-> FALSE, data |-> << >>]} \cup {[exists |-> TRUE, data |-> d] : d \in Dicts}

\* for the free-text and English-side inputs: the dictionaries that set
\* fallback_to_prefix, with or without silent_fail
FewConfigFiles == {f \in ConfigFiles : f.exists /\ "fallback_to_prefix" \in DOMAIN f.data}

\* lines for the category listing: headwords around z and a-ring, with and
\* without superscript digit, and the grammar tags
ListPool ==
    {<<"-", " ", "*", "*", "z", "b", "*", "*", " ", "*", "s", "u", "b", "s", "t", ".", " ", "m", "*", " ", "c">>,
     <<"-", " ", "*", "*", "AA", "b", "*", "*", " ", "*", "s", "u", "b", "s", "t", ".", " ", "m", "*", " ", "c">>,
     <<"-", " ", "*", "*", "z", "z", "b", "*", "*", " ", "*", "s", "u", "b", "s", "t", ".", " ", "m", "*", " ", "c">>,
     <<"-", " ", "*", "*", "b", "sup1", "*", "*", " ", "*", "s", "u", "b", "s", "t", ".", " ", "m", "*", " ", "c">>,
     <<"-", " ", "*", "*", "b", "a", "*", "*", " ", "*", "s", "u", "b", "s", "t", ".", " ", "m", "*", " ", "c">>,
     <<"-", " ", "*", "*", "b", "*", "*", " ", "*", "s", "u", "b", "s", "t", ".", " ", "f", "*", " ", "c", " ", "*", "s", "u", "b", "s", "t", ".", " ", "m", "*">>,
     <<"-", " ", "*", "*", "c", "*", "*", " ", "*", "s", "u", "b", "s", "t", ".", "*", " ", "d">>,
     <<"-", " ", "*", "*", "c", "*", "*", " ", "*", "s", "u", "b", "s", "t", ".", " ", "n", "*", " ", "d", " ", "*", "s", "u", "b", "s", "t", ".", "*">>,
     <<"-", " ", "*", "*", "a", "*", "*", " ", "x">>,
     <<"-", " ", "*", "*", "a", "*", "*", " ", "*", "a", "d", "j", ".", "*", " ", "x">>,
     <<"-", " ", "*", "*", "a", "*", "*", " ", "*", "v", "e", "r", "b", "*", " ", "x">>,
     <<"-", " ", "*", "*", "a", "*", "*", " ", "*", "a", "d", "v", ".", "*", " ", "x">>,
     <<"-", " ", "*", "*", "a", "*", "*", " ", "*", "s", "u", "b", "s", "t", ".", " ", "m", "/", "f", "*", " ", "x">>,
     <<" ", " ", "*", "*", "a", "b", "*", "*", " ", "y">>,
     << >>,
     <<"bullet", " ", "*", "*", "b", "*", "*", " ", "*", "s", "u", "b", "s", "t", ".", " ", "m", "*", " ", "c">>}

\* the category codes of main(), an unknown code and the random-sample code
Categories ==
    {<<"m">>, <<"f">>, <<"c">>, <<"n">>, <<"w">>, <<"a", "d", "j">>, <<"v">>,
     <<"a", "d", "v">>, <<"u">>}

OtherCodes == {<<"x">>, <<"r">>}

\* lines for the random sample
RandomPool ==
    {<<"-", " ", "*", "*", "a", "*", "*", " ", "x">>,
     <<"-", " ", "*", "*", "b", "*", "*", " ", "y">>,
     <<" ", " ", "z">>,
     << >>,
     <<"bullet", " ", "*", "*", "c", "*", "*", " ", "y">>}

Digits == {"0", "1", "2", "3", "4", "5", "6", "7", "8", "9"}

DigitValue(d) ==
    CASE d = "0" -> 0 [] d = "1" -> 1 [] d = "2" -> 2 [] d = "3" -> 3 [] d = "4" -> 4
      [] d = "5" -> 5 [] d = "6" -> 6 [] d = "7" -> 7 [] d = "8" -> 8 [] d = "9" -> 9

\* int(num_part) succeeds (for a text without sign or blanks)
IsNumber(text) == text # << >> /\ \A k \in 1..Len(text) : text[k] \in Digits

\* int(num_part)
RECURSIVE ToInt(_)
ToInt(text) ==
    IF text = << >> THEN 0
    ELSE 10 * ToInt(SubSeq(text, 1, Len(text) - 1)) + DigitValue(text[Len(text)])

\* what follows -r on the command line: nothing, a count, or no number
CountTexts == {<< >>, <<"x">>} \cup {<<d>> : d \in {c \in Digits : DigitValue(c) <= MaxCount}}

\* the settings files for the listing commands: missing, or a dictionary
\* with or without silent_fail and random_word_count
ListDicts ==
    {<< >>, [random_word_count |-> 2]}
    \cup {[silent_fail |-> b] : b \in BOOLEAN}
    \cup {[silent_fail |-> b, random_word_count |-> 2] : b \in BOOLEAN}

ListConfigFiles ==
    {[exists |-> FALSE, data |-> << >>]} \cup {[exists |-> TRUE, data |-> d] : d \in ListDicts}

----------------------------------------------------------------------------
(* main() *)

\* no flashcard or quiz session is running
NoSession == [round_num |-> 0]

InitCommon ==
    /\ settings = << >>
    /\ pc = "start"
    /\ matches_to_print = << >>
    /\ output = << >>
    /\ session = NoSession

\* nordic <term>, or terms piped in, with a plain or wildcard term
InitSearch ==
    /\ config_file \in ConfigFiles
    /\ isatty \in BOOLEAN
    /\ query \in [cmd : {"search"}, term : SearchTerms]
    /\ content \in Docs(SearchPool, MaxLines)
    /\ InitCommon

\* nordic %<term>
InitFulltext ==
    /\ config_file \in FewConfigFiles
    /\ isatty = TRUE
    /\ query \in [cmd : {"search"}, term : {<<"%">> \o t : t \in FullTerms}]
    /\ content \in Docs(FullPool, MaxFullLines)
    /\ InitCommon

\* nordic -e <term>
InitEnglish ==
    /\ config_file \in FewConfigFiles
    /\ isatty = TRUE
    /\ query \in [cmd : {"english"}, term : EngTerms]
    /\ content \in Docs(EngPool, MaxEngLines)
    /\ InitCommon

\* nordic <term> on a document of up to MaxHeaderLines entries
InitHeaders ==
    /\ config_file \in FewConfigFiles
    /\ isatty = TRUE
    /\ query \in [cmd : {"search"}, term : HeaderTerms]
    /\ content \in Docs(HeaderPool, MaxHeaderLines)
    /\ InitCommon

\* the end-to-end example
InitHus ==
    /\ config_file \in FewConfigFiles
    /\ isatty = TRUE
    /\ query \in [cmd : {"search"}, term : HusTerms]
    /\ content = HusDocument
    /\ InitCommon

Init == InitSearch \/ InitFulltext \/ InitEnglish \/ InitHeaders \/ InitHus

\* settings = get_settings()
LoadSettings ==
    /\ pc = "start"
    /\ settings' = get_settings(config_file).config
    /\ config_file' = get_settings(config_file).file
    /\ pc' = "ready"
    /\ UNCHANGED <<isatty, query, content, matches_to_print, output, session>>

\* the outcome r of a search becomes the state; a search that never returns
\* leaves main() at "diverged"
Finish(r) ==
    /\ matches_to_print' = r.matches
    /\ output' = r.out
    /\ pc' = IF r.diverged THEN "diverged" ELSE "done"
    /\ UNCHANGED session

\* stdin is not a terminal: prefix fallback is switched off and each
\* non-empty stdin line (here one line, query.term) is searched
PipedSearch ==
    /\ pc = "ready"
    /\ ~isatty
    /\ settings' = Put(settings, "fallback_to_prefix", FALSE)
    /\ IF query.term = << >>
       THEN Finish([matches |-> << >>, out |-> << >>, diverged |-> FALSE])
       ELSE Finish(search_dictionary(content, query.term, settings'))
    /\ UNCHANGED <<config_file, isatty, query, content>>

\* the regular search: search_dictionary(content, sys.argv[1], settings)
SearchCommand ==
    /\ pc = "ready"
    /\ isatty
    /\ query.cmd = "search"
    /\ Finish(search_dictionary(content, query.term, settings))
    /\ UNCHANGED <<config_file, isatty, query, content, settings>>

\* -e / --english: english_search(content, sys.argv[2], settings)
EnglishCommand ==
    /\ pc = "ready"
    /\ isatty
    /\ query.cmd = "english"
    /\ Finish([diverged |-> FALSE] @@ english_search(content, query.term, settings))
    /\ UNCHANGED <<config_file, isatty, query, content, settings>>

Next ==
    \/ LoadSettings
    \/ PipedSearch
    \/ SearchCommand
    \/ EnglishCommand

Spec == Init /\ [][Next]_vars

\* nordic -l [<category>]
InitList ==
    /\ config_file \in {f \in ListConfigFiles : "random_word_count" \notin DOMAIN f.data}
    /\ isatty = TRUE
    /\ query \in {[cmd |-> "list"]} \cup [cmd : {"list"}, term : Categories \cup OtherCodes]
    /\ content \in Docs(ListPool, MaxListLines)
    /\ InitCommon

\* nordic -r[N]
InitRandom ==
    /\ config_file \in ListConfigFiles
    /\ isatty = TRUE
    /\ query \in [cmd : {"random"}, term : CountTexts]
    /\ content \in Docs(RandomPool, MaxRandomLines)
    /\ InitCommon

InitListing == InitList \/ InitRandom

\* main() leaves with sys.exit(1) after the error messages msgs
Reject(msgs) ==
    /\ matches_to_print' = << >>
    /\ output' = [k \in 1..Len(msgs) |-> Event(msgs[k], 0, << >>)]
    /\ pc' = "rejected"
    /\ UNCHANGED session

\* main() ends with an uncaught exception: nothing is printed to stdout
Crash ==
    /\ matches_to_print' = << >>
    /\ output' = << >>
    /\ pc' = "crashed"
    /\ UNCHANGED session

\* category in ['m', 'f', 'c', 'n', 'w', 'adj', 'v', 'adv', 'u'] with every
\* code accepted
is_valid_category_any(category) == TRUE

\* category in ['m', 'f', 'c', 'n', 'w', 'adj', 'v', 'adv', 'u']
is_valid_category(category) == category \in Categories

\* -l / --list
ListCommand ==
    /\ pc = "ready"
    /\ isatty
    /\ query.cmd = "list"
    /\ IF "term" \notin DOMAIN query
       THEN Reject(<<"category_required", "categories">>)
       ELSE IF ~is_valid_category(query.term)
       THEN Reject(<<"invalid_category", "categories">>)
       ELSE Finish([diverged |-> FALSE] @@ list_category(content, settings, query.term))
    /\ UNCHANGED <<config_file, isatty, query, content, settings>>

\* -r[N]: count = settings['random_word_count'], replaced by N if given
RandomCommand ==
    /\ pc = "ready"
    /\ isatty
    /\ query.cmd = "random"
    /\ IF "random_word_count" \notin DOMAIN settings
       THEN Crash
       ELSE IF query.term # << >> /\ ~IsNumber(query.term)
       THEN Reject(<<"invalid_random_count">>)
       ELSE \E r \in get_random_words(content, settings,
                                      IF query.term = << >> THEN settings["random_word_count"]
                                      ELSE ToInt(query.term)) :
                Finish([diverged |-> FALSE] @@ r)
    /\ UNCHANGED <<config_file, isatty, query, content, settings>>

NextListing ==
    \/ LoadSettings
    \/ ListCommand
    \/ RandomCommand

SpecListing == InitListing /\ [][NextListing]_vars

\* the texts and terms given to highlight_text, highlight_match and the
\* headword loop of fulltext_search: letters in both cases, the letter that
\* ends an SGR sequence, and the emphasis delimiter
HighlightChars == {"a", "A", "m", "*"}

HighlightTexts == UNION {[1..n -> HighlightChars] : n \in 0..MaxTextLen}

HighlightTerms == {<< >>, <<"a">>, <<"A">>, <<"m">>, <<"a", "m">>}

WildcardTerms ==
    {<<"@">>, <<"@", "a">>, <<"@", "A">>, <<"@", "m">>, <<"@", "a", "m", "@">>, <<"a", "@">>}

InitHighlight ==
    /\ config_file = [exists |-> FALSE, data |-> << >>]
    /\ isatty = TRUE
    /\ query \in [cmd : {"highlight_text", "highlight_head"}, term : HighlightTerms]
                 \cup [cmd : {"highlight_match"}, term : WildcardTerms]
    /\ content \in {<<text>> : text \in HighlightTexts}
    /\ InitCommon

\* the call has returned text; a call that never returns leaves "diverged"
Returned(text, diverged) ==
    Finish([matches |-> << >>,
            out |-> IF diverged THEN << >> ELSE <<Event("line", 1, text)>>,
            diverged |-> diverged])

\* highlight_text(text, search_term, settings): with an empty term and a
\* non-empty text the loop never advances
HighlightText ==
    /\ pc = "ready"
    /\ query.cmd = "highlight_text"
    /\ IF query.term = << >> /\ content[1] # << >>
       THEN Returned(<< >>, TRUE)
       ELSE Returned(highlight_text(content[1], query.term), FALSE)
    /\ UNCHANGED <<config_file, isatty, query, content, settings>>

\* highlight_match(word, search_term, settings)
HighlightMatch ==
    /\ pc = "ready"
    /\ query.cmd = "highlight_match"
    /\ Returned(highlight_match(content[1], query.term), FALSE)
    /\ UNCHANGED <<config_file, isatty, query, content, settings>>

\* processed_head of fulltext_search for a headword that contains the term
HighlightHead ==
    /\ pc = "ready"
    /\ query.cmd = "highlight_head"
    /\ IF Contains(Lower(content[1]), Lower(query.term))
       THEN IF query.term = << >>
            THEN Returned(<< >>, TRUE)
            ELSE Returned(HighlightLoop(content[1], query.term, 1, TRUE), FALSE)
       ELSE Returned(colored(content[1], "light_green"), FALSE)
    /\ UNCHANGED <<config_file, isatty, query, content, settings>>

NextHighlight ==
    \/ LoadSettings
    \/ HighlightText
    \/ HighlightMatch
    \/ HighlightHead

SpecHighlight == InitHighlight /\ [][NextHighlight]_vars

----------------------------------------------------------------------------
(* nordic -f[N] and nordic -q[N] *)

\* the lines of the documents studied with flashcards: two entries and a
\* sub-line
FlashPool ==
    {<<"-", " ", "*", "*", "a", "*", "*", " ", "x">>,
     <<"-", " ", "*", "*", "b", "*", "*", " ", "y">>,
     <<" ", " ", "z">>}

\* the documents of the quiz sessions, of six entry lines each: three
\* definitions among six entries, the last one indented, with a round bullet,
\* a grammar tag and a trailing dash; one definition for all entries; one
\* entry without a definition; six definitions, the last one of sixteen
\* words, more than max_words of get_short_wrong_definitions
QuizDocs ==
    LET long == [k \in 1..31 |-> IF k % 2 = 1 THEN "z" ELSE " "]
        Line(head, definition) == <<"-", " ", "*", "*", head, "*", "*", " ">> \o definition
    IN  {
        <<<<"-", " ", "*", "*", "a", "*", "*", " ", "u">>,
          <<"-", " ", "*", "*", "b", "*", "*", " ", "u">>,
          <<"-", " ", "*", "*", "c", "*", "*", " ", "u">>,
          <<"-", " ", "*", "*", "d", "*", "*", " ", "v">>,
          <<"-", " ", "*", "*", "e", "*", "*", " ", "v">>,
          <<" ", " ", "bullet", " ", "*", "*", "f", "*", "*", " ", "*", "n", "*", " ", "w", " ", "-">>>>,
        <<<<"-", " ", "*", "*", "a", "*", "*", " ", "u">>,
          <<"-", " ", "*", "*", "b", "*", "*", " ", "u">>,
          <<"-", " ", "*", "*", "c", "*", "*", " ", "u">>,
          <<"-", " ", "*", "*", "d", "*", "*", " ", "u">>,
          <<"-", " ", "*", "*", "e", "*", "*", " ", "u">>,
          <<"-", " ", "*", "*", "f", "*", "*", " ", "u">>>>,
        <<<<"-", " ", "*", "*", "a", "*", "*", " ", "u">>,
          <<"-", " ", "*", "*", "b", "*", "*", " ", "v">>,
          <<"-", " ", "*", "*", "c", "*", "*", " ", "w">>,
          <<"-", " ", "*", "*", "d", "*", "*", " ", "x">>,
          <<"-", " ", "*", "*", "e", "*", "*", " ", "y">>,
          <<"-", " ", "*", "*", "f", "*", "*", " ", "*", "n", "*">>>>,
        <<Line("a", <<"u">>), Line("b", <<"v">>), Line("c", <<"w">>),
          Line("d", <<"x">>), Line("e", <<"y">>), Line("f", long)>>}

\* the settings files of the flashcard sessions: missing, or a dictionary
\* with or without silent_fail and flashcard_count
FlashConfigFiles ==
    {[exists |-> FALSE, data |-> << >>]}
    \cup {[exists |-> TRUE, data |-> d] :
             d \in {<< >>, [silent_fail |-> TRUE, flashcard_count |-> 2]}}

\* the settings files of the quiz sessions: a dictionary with or without
\* quiz_word_count
QuizConfigFiles == {[exists |-> TRUE, data |-> d] : d \in {<< >>, [quiz_word_count |-> 1]}}

\* what follows -f on the command line: nothing, a count, or no number
FlashCountTexts == {<< >>, <<"x">>} \cup {<<d>> : d \in {c \in Digits : DigitValue(c) <= MaxFlashCount}}

\* what follows -q on the command line: nothing, a count, or no number
QuizCountTexts == {<< >>, <<"x">>} \cup {<<d>> : d \in {c \in Digits : DigitValue(c) <= MaxQuizCount}}

\* get_char() after a word is shown: Ctrl+C or another key
AnyKeys == {"ETX", "x"}

\* get_char() in run_flashcards: SPACE, DELETE, BACKSPACE, Ctrl+C, another key
FlashKeys == {" ", "DEL", "BS", "ETX", "x"}

\* get_char() in run_quiz: the five letters, a capital, Ctrl+C, another key
QuizKeys == {"a", "b", "c", "d", "e", "A", "ETX", "x"}

\* nordic -f[N]
InitFlash ==
    /\ config_file \in FlashConfigFiles
    /\ isatty = TRUE
    /\ query \in [cmd : {"flash"}, term : FlashCountTexts]
    /\ content \in Docs(FlashPool, MaxFlashLines)
    /\ InitCommon

\* nordic -q[N]
InitQuiz ==
    /\ config_file \in QuizConfigFiles
    /\ isatty = TRUE
    /\ query \in [cmd : {"quiz"}, term : QuizCountTexts]
    /\ content \in QuizDocs
    /\ InitCommon

InitSession == InitFlash \/ InitQuiz

\* "Quiz terminated." after Ctrl+C
Terminate(events) ==
    /\ output' = output \o events \o <<Event("terminated", 0, << >>)>>
    /\ pc' = "terminated"
    /\ UNCHANGED session

\* the word at position session.k has been answered: the separator, then the
\* next word of the round, or the end of the round; the options of the
\* question are no longer on the screen
Advance(events, review) ==
    LET entry == session.not_remembered[session.k]
        still_learning == keep_reviewing(session.still_learning, entry, review)
    IN  IF session.k < Len(session.not_remembered)
        THEN /\ session' = [session EXCEPT !.still_learning = still_learning,
                                            !.k = session.k + 1, !.options = << >>]
             /\ output' = output \o events \o
                          <<Event("separator", 0, << >>),
                            WordEvent(session.not_remembered[session.k + 1], session.round_num)>>
             /\ pc' = "word"
        ELSE /\ session' = [session EXCEPT
                               !.not_remembered = next_round(session.not_remembered, still_learning),
                               !.still_learning = still_learning,
                               !.round_num = session.round_num + 1,
                               !.k = 0, !.options = << >>]
             /\ output' = output \o events \o <<Event("separator", 0, << >>)>>
             /\ pc' = "round"

\* the head of the while loop: the congratulation when no word remains,
\* else the round header, the shuffle and the first word
Round ==
    IF session.not_remembered = << >>
    THEN /\ output' = Append(output, Event("congratulations", 0, << >>))
         /\ pc' = "done"
         /\ UNCHANGED session
    ELSE \E order \in Shuffles(session.not_remembered) :
            /\ session' = [session EXCEPT !.not_remembered = order, !.still_learning = << >>, !.k = 1]
            /\ output' = output \o RoundEvents(session.round_num, Len(order)) \o
                         <<WordEvent(order[1], session.round_num)>>
            /\ pc' = "word"

\* -f[N]: count = settings['flashcard_count'], replaced by N if given; the
\* entries are collected and count of them sampled
StartFlashcards ==
    /\ pc = "ready"
    /\ isatty
    /\ query.cmd = "flash"
    /\ IF "flashcard_count" \notin DOMAIN settings
       THEN Crash
       ELSE IF query.term # << >> /\ ~IsNumber(query.term)
       THEN Reject(<<"invalid_flashcard_count">>)
       ELSE LET Sampled(entries, count) ==
                    IF entries = << >>
                    THEN Finish([diverged |-> FALSE, matches |-> << >>,
                                 out |-> IF Get(settings, "silent_fail", FALSE) THEN << >>
                                         ELSE <<Event("notice", 0, << >>)>>])
                    ELSE \E quiz_entries \in Samples(entries, IF count > Len(entries)
                                                              THEN Len(entries) ELSE count) :
                            /\ session' = [round_num |-> 1, not_remembered |-> quiz_entries,
                                           still_learning |-> << >>, k |-> 0,
                                           options |-> << >>, invalid |-> 0]
                            /\ pc' = "round"
                            /\ UNCHANGED <<matches_to_print, output>>
            IN  Sampled(flash_entries(content),
                        IF query.term = << >> THEN settings["flashcard_count"]
                        ELSE ToInt(query.term))
    /\ UNCHANGED <<config_file, isatty, query, content, settings>>

\* while not_remembered: of run_flashcards
FlashRound ==
    /\ pc = "round"
    /\ query.cmd = "flash"
    /\ Round
    /\ UNCHANGED <<config_file, isatty, query, content, settings, matches_to_print>>

\* the key after the word: Ctrl+C ends the session, any other key shows the
\* lines of the entry
FlashReveal ==
    /\ pc = "word"
    /\ query.cmd = "flash"
    /\ \E ch \in AnyKeys :
          LET entry == session.not_remembered[session.k]
          IN  IF ch = "ETX"
              THEN Terminate(<< >>)
              ELSE /\ output' = output \o <<Event("definition", 0, << >>)>> \o
                                [n \in 1..Len(entry.lines) |->
                                    Event("entry_line", entry.lines[n], content[entry.lines[n]])]
                   /\ pc' = "answer"
                   /\ UNCHANGED session
    /\ UNCHANGED <<config_file, isatty, query, content, settings, matches_to_print>>

\* the key after the definition: SPACE marks the word remembered, BACKSPACE
\* or DELETE keeps it for review, Ctrl+C ends the session, other keys are
\* ignored
FlashMark ==
    /\ pc = "answer"
    /\ query.cmd = "flash"
    /\ \E ch \in FlashKeys :
          CASE ch = " " ->
                  Advance(<<MarkEvent("remembered", session.not_remembered[session.k],
                                      session.round_num)>>, FALSE)
            [] ch \in {"DEL", "BS"} ->
                  /\ session.round_num < MaxFlashRounds
                  /\ Advance(<<MarkEvent("review", session.not_remembered[session.k],
                                         session.round_num)>>, TRUE)
            [] ch = "ETX" -> Terminate(<< >>)
            [] OTHER -> UNCHANGED <<output, pc, session>>
    /\ UNCHANGED <<config_file, isatty, query, content, settings, matches_to_print>>

\* -q[N]: count = settings['quiz_word_count'], replaced by N if given; the
\* entries with a definition are collected and count of them sampled
StartQuiz ==
    /\ pc = "ready"
    /\ isatty
    /\ query.cmd = "quiz"
    /\ IF "quiz_word_count" \notin DOMAIN settings
       THEN Crash
       ELSE IF query.term # << >> /\ ~IsNumber(query.term)
       THEN Reject(<<"invalid_quiz_count">>)
       ELSE LET Sampled(all_entries, count) ==
                    IF Len(all_entries) < 6
                    THEN Finish([diverged |-> FALSE, matches |-> << >>,
                                 out |-> <<Event("not_enough_entries", 0, << >>)>>])
                    ELSE \E quiz_entries \in Samples(all_entries, IF count > Len(all_entries)
                                                                  THEN Len(all_entries) ELSE count) :
                            /\ session' = [round_num |-> 1, not_remembered |-> quiz_entries,
                                           still_learning |-> << >>, k |-> 0,
                                           options |-> << >>, invalid |-> 0]
                            /\ pc' = "round"
                            /\ UNCHANGED <<matches_to_print, output>>
            IN  Sampled(get_headword_entries(content),
                        IF query.term = << >> THEN settings["quiz_word_count"]
                        ELSE ToInt(query.term))
    /\ UNCHANGED <<config_file, isatty, query, content, settings>>

\* while not_learned: of run_quiz
QuizRound ==
    /\ pc = "round"
    /\ query.cmd = "quiz"
    /\ Round
    /\ UNCHANGED <<config_file, isatty, query, content, settings, matches_to_print>>

\* the key after the word: Ctrl+C ends the session, any other key shows the
\* options, lettered from a, and the prompt; the options on the screen are
\* session.options
QuizOptions ==
    /\ pc = "word"
    /\ query.cmd = "quiz"
    /\ \E ch \in AnyKeys :
          IF ch = "ETX"
          THEN Terminate(<< >>)
          ELSE \E options \in quiz_options(get_headword_entries(content),
                                           session.not_remembered[session.k].definition) :
                  /\ session' = [session EXCEPT !.options = options, !.invalid = 0]
                  /\ output' = output \o <<Event("choose", 0, << >>), Event("prompt", 0, << >>)>>
                  /\ pc' = "answer"
    /\ UNCHANGED <<config_file, isatty, query, content, settings, matches_to_print>>

\* the key after the prompt, lower-cased and echoed: Ctrl+C ends the session,
\* a letter of 'abcde' is compared with correct_letter, any other key is
\* asked again
QuizAnswer ==
    /\ pc = "answer"
    /\ query.cmd = "quiz"
    /\ \E key \in QuizKeys :
          LET ch == LowerChar(key)
              correct_def == session.not_remembered[session.k].definition
              letter == correct_letter(session.options, correct_def)
              echo == <<Event("echo", 0, <<ch>>)>>
          IN  IF ch = "ETX"
              THEN Terminate(echo)
              ELSE IF LetterIndex(ch) = 0
              THEN /\ session.invalid < MaxInvalid
                   /\ session' = [session EXCEPT !.invalid = session.invalid + 1]
                   /\ output' = output \o echo \o
                                <<Event("invalid_answer", 0, << >>), Event("prompt", 0, << >>)>>
                   /\ pc' = "answer"
              ELSE IF LetterIndex(ch) = letter
              THEN Advance(echo \o <<MarkEvent("correct", session.not_remembered[session.k],
                                                session.round_num)>>, FALSE)
              ELSE /\ session.round_num < MaxQuizRounds
                   /\ Advance(echo \o <<MarkEvent("incorrect", session.not_remembered[session.k],
                                                  session.round_num),
                                        Event("correct_answer", letter, correct_def)>>, TRUE)
    /\ UNCHANGED <<config_file, isatty, query, content, settings, matches_to_print>>

NextSession ==
    \/ LoadSettings
    \/ StartFlashcards
    \/ FlashRound
    \/ FlashReveal
    \/ FlashMark
    \/ StartQuiz
    \/ QuizRound
    \/ QuizOptions
    \/ QuizAnswer

SpecSession == InitSession /\ [][NextSession]_vars


----------------------------------------------------------------------------
(* Vocabulary of the properties *)

\* the query has been answered
Done == pc = "done"

\* a search was run: a piped empty line is skipped without searching
Searched == Done /\ (isatty \/ query.term # << >>)

\* the kinds of query
IsHeadwordQuery == query.cmd = "search" /\ ~StartsWith(query.term, <<"%">>)

IsPlainQuery == IsHeadwordQuery /\ ~Contains(query.term, <<"@">>)

IsFulltextQuery == query.cmd = "search" /\ StartsWith(query.term, <<"%">>)

IsEnglishQuery == query.cmd = "english"

\* the line indices of the result, in result order, and as a set
ResultLines == [k \in 1..Len(matches_to_print) |-> matches_to_print[k].line]

ResultSet == {matches_to_print[k].line : k \in 1..Len(matches_to_print)}

\* the lines of the set S in document order
InOrder(S) ==
    LET Member(i) == i \in S
    IN  SelectSeq(LineIndices(content), Member)

\* the main-entry lines of the document and their normalized headwords
MainEntries == {i \in 1..Len(content) : IsMainEntry(content[i])}

NormHead(i) == Lower(normalize_headword(HeadTerm(content[i])))

\* the main entries whose normalized headword equals t / starts with t /
\* contains t, ignoring case
EqualSet(t) == {i \in MainEntries : NormHead(i) = Lower(t)}

PrefixSet(t) == {i \in MainEntries : StartsWith(NormHead(i), Lower(t))}

SubstringSet(t) == {i \in MainEntries : Contains(NormHead(i), Lower(t))}

\* the zero-match outcome: the notice, or nothing at all under silent_fail
ZeroMatchOutcome ==
    /\ matches_to_print = << >>
    /\ output = IF "silent_fail" \in DOMAIN settings /\ settings["silent_fail"]
                THEN << >>
                ELSE <<Event("notice", 0, IF IsFulltextQuery THEN Tail1(query.term)
                                          ELSE query.term)>>

----------------------------------------------------------------------------
(* C1 - C6: plain terms and '@' wildcards *)

\* C1: a plain term (no '@', no '%') that equals the normalized headword of
\* at least one main entry, ignoring case, returns exactly the main entries
\* with that equality, in document order; an entry that only has the term as
\* a proper prefix is not returned.
C1_ExactMatchesOnly ==
    (Searched /\ IsPlainQuery /\ EqualSet(query.term) # {})
        => ResultLines = InOrder(EqualSet(query.term))

\* an exact match was returned while another entry has the term as a proper
\* prefix of its headword
C1_Witness ==
    /\ Searched /\ IsPlainQuery
    /\ EqualSet(query.term) # {}
    /\ PrefixSet(query.term) \ EqualSet(query.term) # {}
    /\ ResultLines # << >>

\* C2: a plain term without exact match returns exactly the main entries
\* whose normalized headword starts with the term, in document order, when
\* the settings allow prefix fallback; when they disallow it the result is
\* empty and the query is handled as a zero-match query, prefix matches or not.
C2_PrefixFallback ==
    (Searched /\ IsPlainQuery /\ EqualSet(query.term) = {}
        /\ "fallback_to_prefix" \in DOMAIN settings)
        => IF settings["fallback_to_prefix"]
           THEN /\ ResultLines = InOrder(PrefixSet(query.term))
                /\ PrefixSet(query.term) = {} => ZeroMatchOutcome
           ELSE ZeroMatchOutcome

\* the fallback returned two prefix matches of a non-empty term
C2_Witness ==
    /\ Searched /\ IsPlainQuery
    /\ query.term # << >>
    /\ EqualSet(query.term) = {}
    /\ "fallback_to_prefix" \in DOMAIN settings /\ settings["fallback_to_prefix"]
    /\ Cardinality(PrefixSet(query.term)) = 2
    /\ Len(ResultLines) = 2

\* C3 (as claimed): when the settings do not hold the fallback option at all,
\* a plain term without exact match and with prefix matches still returns
\* the prefix matches.
C3_FallbackDefaultsTrue ==
    (Searched /\ IsPlainQuery /\ EqualSet(query.term) = {}
        /\ PrefixSet(query.term) # {}
        /\ "fallback_to_prefix" \notin DOMAIN settings)
        => ResultLines = InOrder(PrefixSet(query.term))

\* C4 (as claimed): in every query mode a query with zero matches prints the
\* notice, or nothing at all when silent_fail is set.
C4_UniformZeroMatch ==
    (Searched /\ matches_to_print = << >>) => ZeroMatchOutcome

\* the text between the '@' markers of a substring term
SubstringOf(t) == IF Len(t) >= 2 /\ EndsWith(t, <<"@">>) THEN Inner(t) ELSE Tail1(t)

\* C5: a term @abc@ or @abc returns exactly the main entries whose normalized
\* headword has abc as a substring, ignoring case, in document order.
C5_SubstringWildcard ==
    (Searched /\ IsHeadwordQuery /\ StartsWith(query.term, <<"@">>))
        => ResultLines = InOrder(SubstringSet(SubstringOf(query.term)))

\* a substring term returned an entry that holds the text in the interior of
\* its headword, and left another main entry out
C5_Witness ==
    /\ Searched /\ IsHeadwordQuery /\ StartsWith(query.term, <<"@">>)
    /\ \E i \in ResultSet : ~StartsWith(NormHead(i), Lower(SubstringOf(query.term)))
    /\ MainEntries \ ResultSet # {}

\* C6: a term x@ (trailing '@', no leading '@') returns exactly the main
\* entries whose normalized headword starts with x, ignoring case; an entry
\* that holds x only in the interior of its headword is not returned.
C6_PrefixWildcard ==
    (Searched /\ IsHeadwordQuery
        /\ EndsWith(query.term, <<"@">>) /\ ~StartsWith(query.term, <<"@">>))
        => ResultLines = InOrder(PrefixSet(Front1(query.term)))

\* a prefix term returned an entry and left out one that holds x only in
\* the interior of its headword
C6_Witness ==
    /\ Searched /\ IsHeadwordQuery
    /\ EndsWith(query.term, <<"@">>) /\ ~StartsWith(query.term, <<"@">>)
    /\ ResultLines # << >>
    /\ SubstringSet(Front1(query.term)) \ PrefixSet(Front1(query.term)) # {}

----------------------------------------------------------------------------
(* C7 - C9: free-text search *)

\* text with its emphasis delimiters removed and what they enclose kept:
\* the delimiter pairs are those of the lazy pair pattern
RECURSIVE StripDelims(_, _, _)
StripDelims(text, delim, from) ==
    LET d == Len(delim)
        open == Find(text, delim, from)
        close == IF open = 0 THEN 0 ELSE Find(text, delim, open + d)
    IN  IF open = 0 \/ close = 0 THEN Slice(text, from, Len(text))
        ELSE Slice(text, from, open - 1) \o Slice(text, open + d, close - 1)
             \o StripDelims(text, delim, close + d)

\* the logically unmarked text of a line
Unmarked(text) == StripDelims(StripDelims(text, <<"*", "*">>, 1), <<"*">>, 1)

\* the term of a free-text query, without the '%'
FreeTerm == Tail1(query.term)

\* C7 (as claimed): free-text search compares against the unmarked text: a
\* main-entry line is matched if and only if the term is a substring,
\* ignoring case, of its headword or of its text without the emphasis
\* delimiters, and a sub-entry line if and only if the term is a substring
\* of its text without the emphasis delimiters.
C7_FreeTextOnUnmarkedText ==
    (Done /\ IsFulltextQuery)
        => \A i \in 1..Len(content) :
              /\ IsMainEntry(content[i])
                    => (i \in ResultSet <=>
                          \/ Contains(Lower(HeadTerm(content[i])), Lower(FreeTerm))
                          \/ Contains(Lower(Unmarked(content[i])), Lower(FreeTerm)))
              /\ (~IsMainEntry(content[i]) /\ IsSubentry(content[i]))
                    => (i \in ResultSet <=>
                          Contains(Lower(Unmarked(content[i])), Lower(FreeTerm)))

\* C8 (as claimed): the result lines of a free-text search are in document
\* order: their line indices are strictly increasing.
C8_FreeTextDocumentOrder ==
    (Done /\ IsFulltextQuery)
        => \A k \in 1..(Len(ResultLines) - 1) : ResultLines[k] < ResultLines[k + 1]

\* the lines a headword search for t returns under the current settings
HeadwordResult(t) ==
    {m.line : m \in {search_headwords(content, t, settings).matches[k] :
                        k \in 1..Len(search_headwords(content, t, settings).matches)}}

\* the plain term T and its three wildcard forms
HeadwordForms(t) == {t, <<"@">> \o t, t \o <<"@">>, <<"@">> \o t \o <<"@">>}

\* C9 (as claimed): every main entry that plain search for T or wildcard
\* search for @T, T@ or @T@ returns, and whose headword literally contains
\* T, is also returned by free-text search for %T.
C9_FreeTextSuperset ==
    (IsFulltextQuery /\ pc \in {"done", "diverged"})
        => \A t \in HeadwordForms(FreeTerm) : \A i \in HeadwordResult(t) :
              Contains(HeadTerm(content[i]), FreeTerm) => (Done /\ i \in ResultSet)

\* the part of C9 the code keeps: the inclusion for every non-empty term
FreeTextSupersetNonEmpty ==
    (IsFulltextQuery /\ pc \in {"done", "diverged"} /\ FreeTerm # << >>)
        => \A t \in HeadwordForms(FreeTerm) : \A i \in HeadwordResult(t) :
              Contains(HeadTerm(content[i]), FreeTerm) => (Done /\ i \in ResultSet)

----------------------------------------------------------------------------
(* C10: English-side search *)

\* the definition of a main-entry line: the text after the bold headword
\* span that follows the bullet, or after the headword token when the
\* headword is not bold
DefinitionText(line) ==
    LET open == Find(line, <<"*", "*">>, 1)
        close == IF open = 0 THEN 0 ELSE Find(line, <<"*", "*">>, open + 2)
        leads == open # 0 /\ \A k \in 1..(open - 1) : IsSpace(line[k]) \/ IsBullet(line[k])
    IN  IF leads /\ close # 0 THEN Slice(line, close + 2, Len(line))
        ELSE MainEntryMatch(line).rest

\* for each character of text, whether it lies inside a bold or italic span:
\* a pair of asterisks toggles bold, a single asterisk toggles italic
RECURSIVE SpanScan(_, _, _, _)
SpanScan(text, p, bold, italic) ==
    IF p > Len(text) THEN << >>
    ELSE IF OccursAt(text, <<"*", "*">>, p)
    THEN <<FALSE, FALSE>> \o SpanScan(text, p + 2, ~bold, italic)
    ELSE IF text[p] = "*"
    THEN <<FALSE>> \o SpanScan(text, p + 1, bold, ~italic)
    ELSE <<bold \/ italic>> \o SpanScan(text, p + 1, bold, italic)

\* the word occurs in text as a whole word, and every such occurrence lies
\* inside a bold or italic span
OnlyInsideSpans(text, word) ==
    LET occurrences == {k \in 1..Len(text) : WordAt(Lower(text), Lower(word), k)}
        inside == SpanScan(text, 1, FALSE, FALSE)
    IN  /\ word # << >>
        /\ occurrences # {}
        /\ \A k \in occurrences : \A m \in k..(k + Len(word) - 1) : inside[m]

----------------------------------------------------------------------------
(* C11: English-side search, whole words *)

\* the definition text of the main entry at line i after markup removal:
\* the text after the headword, without its bold and italic spans
EnglishDefinition(i) == english_text(DefinitionText(content[i]))

\* C11 (as claimed): English-side search is whole-word and case-insensitive:
\* a main entry is in the result if and only if the term occurs, delimited by
\* word boundaries and ignoring case, in its definition text after markup
\* removal; the results are in document order.
C11_EnglishWholeWord ==
    (Done /\ IsEnglishQuery /\ query.term # << >>)
        => /\ \A i \in MainEntries :
                 i \in ResultSet
                    <=> WordSearch(Lower(EnglishDefinition(i)), Lower(query.term))
           /\ \A k \in 1..(Len(ResultLines) - 1) : ResultLines[k] < ResultLines[k + 1]

\* the part of C11 the code keeps: the equivalence for the main entries whose
\* headword is a single token, where group 2 of the pattern is the
\* definition text
EnglishWholeWordSingleToken ==
    (Done /\ IsEnglishQuery /\ query.term # << >>)
        => \A i \in MainEntries :
              MainEntryMatch(content[i]).rest = DefinitionText(content[i])
                 => (i \in ResultSet
                       <=> WordSearch(Lower(EnglishDefinition(i)), Lower(query.term)))

----------------------------------------------------------------------------
(* C12 - C16: the category listing *)

\* the entries the listing commands consider: lines that start with '- '
\* and carry a bold headword
ListEntries ==
    {i \in 1..Len(content) : IsListEntry(content[i]) /\ word_match(content[i]).ok}

\* nordic -l <category> was run to its end
Listed(category) ==
    Done /\ query.cmd = "list" /\ "term" \in DOMAIN query /\ query.term = category

\* the tags of the four known types: noun, adjective, verb, adverb
KnownTypeTags ==
    {<<"*", "s", "u", "b", "s", "t", ".">>,
     <<"*", "a", "d", "j", ".", "*">>,
     <<"*", "v", "e", "r", "b", "*">>,
     <<"*", "a", "d", "v", ".", "*">>}

HasTypeTag(line) == \E tag \in KnownTypeTags : Contains(line, tag)

\* C12 (as claimed): category 'u' lists exactly the entries in which none
\* of the known type tags (noun, adjective, verb, adverb) is present.
C12_UnidentifiedListing ==
    Listed(<<"u">>) => ResultSet = {i \in ListEntries : ~HasTypeTag(content[i])}

\* the categories that stand for one grammar tag, and the text of that tag
TagCategories ==
    {<<"m">>, <<"f">>, <<"c">>, <<"n">>, <<"a", "d", "j">>, <<"v">>, <<"a", "d", "v">>}

GenderCategories == {<<"m">>, <<"f">>, <<"c">>, <<"n">>}

CategoryTag(category) ==
    CASE category = <<"m">> -> <<"s", "u", "b", "s", "t", ".", " ", "m">>
      [] category = <<"f">> -> <<"s", "u", "b", "s", "t", ".", " ", "f">>
      [] category = <<"c">> -> <<"s", "u", "b", "s", "t", ".", " ", "m", "/", "f">>
      [] category = <<"n">> -> <<"s", "u", "b", "s", "t", ".", " ", "n">>
      [] category = <<"a", "d", "j">> -> <<"a", "d", "j", ".">>
      [] category = <<"v">> -> <<"v", "e", "r", "b">>
      [] category = <<"a", "d", "v">> -> <<"a", "d", "v", ".">>

\* the text of an entry line after its bold headword
AfterHeadword(line) ==
    LET After(word) ==
            Slice(line, Find(line, <<"*", "*">> \o word \o <<"*", "*">>, 1) + Len(word) + 4,
                  Len(line))
    IN  After(word_match(line).word)

\* the grammar tag directly after the headword of line is tag
AdjacentTag(line, tag) == StartsWith(AfterHeadword(line), <<" ", "*">> \o tag \o <<"*">>)

\* C13 (as claimed): under m, f, c, n, adj, v, adv an entry is listed if and
\* only if the grammar tag directly adjacent to its headword is the tag of
\* the category (the same tag later in the line does not count), and an
\* entry listed under one of m, f, c, n matches no other of them.
C13_AdjacentTagListing ==
    /\ \A category \in TagCategories :
          Listed(category)
             => ResultSet = {i \in ListEntries : AdjacentTag(content[i], CategoryTag(category))}
    /\ \A g, h \in GenderCategories :
          (Listed(g) /\ h # g) => \A i \in ResultSet : ~is_match(h, content[i])

\* a noun tag, with or without gender, anywhere in the line
HasNounTag(line) == Contains(line, <<"*", "s", "u", "b", "s", "t", ".">>)

\* a noun tag with one of the gender sub-tags m, f, m/f, n anywhere in the line
HasGenderTag(line) ==
    \E g \in GenderCategories : Contains(line, <<"*">> \o CategoryTag(g) \o <<"*">>)

\* C14 (as claimed): category 'w' lists exactly the entries that carry a
\* noun tag but no gender sub-tag.
C14_NoGenderListing ==
    Listed(<<"w">>)
        => ResultSet = {i \in ListEntries : HasNounTag(content[i]) /\ ~HasGenderTag(content[i])}

\* the headword of the entry at line i in lower case
ListHead(i) == Lower(word_match(content[i]).word)

\* an alphabetical listing was run to its end
ListedAny == \E category \in Categories : Listed(category)

\* C15 (as claimed): the alphabetical listing puts every entry whose
\* headword begins with a-ring (either case) after every entry whose
\* headword begins with z.
C15_AringAfterZ ==
    ListedAny
        => \A a, b \in 1..Len(ResultLines) :
              (ListHead(ResultLines[a])[1] = "aa" /\ ListHead(ResultLines[b])[1] = "z")
                  => b < a

\* the place of a letter in the alphabet a..z, ae, o-slash, a-ring
AlphabetRank(c) ==
    CASE c = "a" -> 1 [] c = "b" -> 2 [] c = "c" -> 3 [] c = "z" -> 26
      [] c = "ae" -> 27 [] c = "oe" -> 28 [] c = "aa" -> 29

\* x sorts before y under that alphabet
AlphabetLess(x, y) ==
    \E k \in 1..Len(y) :
        /\ k <= Len(x) + 1
        /\ \A m \in 1..(k - 1) : x[m] = y[m]
        /\ k = Len(x) + 1 \/ AlphabetRank(x[k]) < AlphabetRank(y[k])

\* the normalized headword of the entry at line i, in lower case
ListNormHead(i) == normalize_headword(ListHead(i))

\* C16 (as claimed): the listing is ordered by normalized headword: an
\* entry is never printed after an entry whose headword, superscript digits
\* stripped and case ignored, comes later in the alphabet a..z, ae, o-slash,
\* a-ring.
C16_NormalizedOrder ==
    ListedAny
        => \A a, b \in 1..Len(ResultLines) :
              AlphabetLess(ListNormHead(ResultLines[a]), ListNormHead(ResultLines[b]))
                  => a < b

----------------------------------------------------------------------------
(* C17: the random sample *)

Minimum(a, b) == IF a < b THEN a ELSE b

\* the entry lines the output prints, one element per print call
PrintedEntries == {k \in 1..Len(output) : output[k].kind = "entry"}

\* nordic -rN was given with a count N and main() has ended
SampleRequested == query.cmd = "random" /\ IsNumber(query.term) /\ pc \notin {"start", "ready"}

\* C17 (as claimed): a random-sample request for N of M entries outputs
\* exactly min(N, M) entries, each one an entry of the document and none
\* twice.
C17_RandomSampleSize ==
    SampleRequested
        => /\ Cardinality(PrintedEntries) = Minimum(ToInt(query.term), Cardinality(ListEntries))
           /\ ResultSet \subseteq ListEntries
           /\ \A j, k \in PrintedEntries : output[j].line = output[k].line => j = k
           /\ {output[k].line : k \in PrintedEntries} = ResultSet

\* the part of C17 the code keeps: a sample that get_random_words returns
\* has min(N, M) distinct entries
RandomSampleWhenReturned ==
    (SampleRequested /\ Done)
        => /\ Cardinality(PrintedEntries) = Minimum(ToInt(query.term), Cardinality(ListEntries))
           /\ ResultSet \subseteq ListEntries
           /\ \A j, k \in PrintedEntries : output[j].line = output[k].line => j = k
           /\ {output[k].line : k \in PrintedEntries} = ResultSet

----------------------------------------------------------------------------
(* C18: category codes outside the recognized set *)

RecognizedCodes ==
    {<<"m">>, <<"f">>, <<"c">>, <<"n">>, <<"w">>, <<"a", "d", "j">>, <<"v">>,
     <<"a", "d", "v">>, <<"u">>}

\* nordic -l <code> with a code outside the recognized set has ended
UnknownCodeHandled ==
    /\ query.cmd = "list"
    /\ "term" \in DOMAIN query
    /\ query.term \notin RecognizedCodes
    /\ pc \notin {"start", "ready"}

\* C18: a listing request with a category code outside the recognized set
\* is rejected: main() leaves with the invalid-category error, which is not
\* the empty-result notice, and no entry is listed.
C18_UnknownCategoryRejected ==
    UnknownCodeHandled
        => /\ pc = "rejected"
           /\ output # << >>
           /\ output[1].kind = "invalid_category"
           /\ \A k \in 1..Len(output) : output[k].kind \notin {"notice", "entry", "sub"}
           /\ matches_to_print = << >>

C18_Witness == UnknownCodeHandled /\ query.term = <<"x">> /\ pc = "rejected" /\ content # <<<< >>>>

----------------------------------------------------------------------------
(* C19, C20: the entries of the headword search *)

\* the print calls of the output that render document line i as the line of
\* an entry / as a sub-entry line
EntryPrints(i) == {k \in 1..Len(output) : output[k].kind = "entry" /\ output[k].line = i}

SubPrints(i) == {k \in 1..Len(output) : output[k].kind = "sub" /\ output[k].line = i}

\* C19 (as claimed): every line the search treats as a main entry has a
\* non-empty normalized headword.
C19_NormalizedHeadwordNonEmpty ==
    (Done /\ IsHeadwordQuery)
        => \A i \in ResultSet : normalize_headword(HeadTerm(content[i])) # << >>

\* what the pattern does guarantee: the headword itself is never empty
HeadwordNonEmpty ==
    (Done /\ IsHeadwordQuery) => \A i \in ResultSet : HeadTerm(content[i]) # << >>

\* C20 (as claimed): sub-line ownership is exclusive: no line is both
\* matched as a main entry of its own and rendered as a sub-line of another
\* entry, and a line is the sub-line of at most one entry.
C20_ExclusiveOwnership ==
    (Done /\ IsHeadwordQuery)
        => \A i \in 1..Len(content) :
              /\ ~(EntryPrints(i) # {} /\ SubPrints(i) # {})
              /\ Cardinality(SubPrints(i)) <= 1

----------------------------------------------------------------------------
(* C21: the lines attached to an entry *)

\* the first line after i that is blank or a main-entry line (Len + 1 if none)
AttachEnd(lines, i) ==
    CHOOSE j \in (i + 1)..(Len(lines) + 1) :
        /\ j = Len(lines) + 1 \/ IsBlank(lines[j]) \/ IsMainEntry(lines[j])
        /\ \A m \in (i + 1)..(j - 1) : ~IsBlank(lines[m]) /\ ~IsMainEntry(lines[m])

\* the document lines printed as sub-lines of the entry that print call k renders
AttachedTo(k) ==
    {output[m].line : m \in {n \in (k + 1)..Len(output) :
                                /\ output[n].kind = "sub"
                                /\ \A e \in (k + 1)..n : output[e].kind # "entry"}}

\* the result lines of a free-text search that belong to the block of the
\* matched main entry at line i
FulltextAttached(i) ==
    {j \in ResultSet : i < j /\ \A m \in (i + 1)..j : ~IsMainEntry(content[m])}

\* C21 (as claimed): in every mode that renders an entry with its
\* sub-lines, the lines attached to an entry are exactly the lines after
\* its body line up to the first blank line or the next main-entry line;
\* in free-text search, where the block is filtered, no attached line lies
\* at or after that end.
C21_AttachedLines ==
    Done
        => /\ \A k \in PrintedEntries :
                 AttachedTo(k) = (output[k].line + 1)..(AttachEnd(content, output[k].line) - 1)
           /\ IsFulltextQuery
                 => \A i \in ResultSet \cap MainEntries :
                       \A j \in FulltextAttached(i) : j < AttachEnd(content, i)

\* the part of C21 the headword search keeps: its sub-line loop stops at
\* the first blank line
HeadwordSearchStopsAtBlank ==
    (Done /\ IsHeadwordQuery)
        => \A k \in PrintedEntries :
              \A j \in AttachedTo(k) :
                 \A m \in (output[k].line + 1)..j : ~IsBlank(content[m])

----------------------------------------------------------------------------
(* C22: the two bullet markers *)

\* a line that starts with the round bullet and carries a bold headword
IsRoundBulletEntry(line) == StartsWith(line, <<"bullet", " ">>) /\ word_match(line).ok

RoundBulletEntries == {i \in 1..Len(content) : IsRoundBulletEntry(content[i])}

\* nordic -rN was run to its end with N not below the number of lines
SampledAll ==
    Done /\ query.cmd = "random" /\ IsNumber(query.term) /\ ToInt(query.term) >= Len(content)

\* C22 (as claimed): a line that starts with the round bullet and a bold
\* headword is a main entry for the category listing and for the random
\* selection as it is for the search: it is listed under the category of
\* its adjacent tag, and a sample of all entries contains it.
C22_BothBulletMarkers ==
    /\ \A category \in TagCategories :
          Listed(category)
             => \A i \in RoundBulletEntries :
                   AdjacentTag(content[i], CategoryTag(category)) => i \in ResultSet
    /\ SampledAll => RoundBulletEntries \subseteq ResultSet

----------------------------------------------------------------------------
(* C23: the letter headers of the wildcard search *)

\* the print calls of the output that print a letter header
Headers == {k \in 1..Len(output) : output[k].kind = "header"}

\* the upper-cased first letter of the original headword of line i
FirstLetter(i) == UpperChar(HeadTerm(content[i])[1])

\* the first matched entry whose headword begins with letter
FirstWith(letter) ==
    ResultLines[CHOOSE n \in 1..Len(ResultLines) :
                    /\ FirstLetter(ResultLines[n]) = letter
                    /\ \A m \in 1..(n - 1) : FirstLetter(ResultLines[m]) # letter]

\* C23 (as claimed): when the term starts with '@' the output has exactly
\* one letter header per distinct first letter of the matched headwords,
\* placed before the first matched entry with that letter; otherwise it has
\* no header.
C23_OneHeaderPerLetter ==
    (Done /\ IsHeadwordQuery)
        => IF StartsWith(query.term, <<"@">>)
           THEN /\ Cardinality(Headers) = Cardinality({FirstLetter(i) : i \in ResultSet})
                /\ \A i \in ResultSet :
                      \E k \in Headers :
                         /\ output[k].text = <<FirstLetter(i)>>
                         /\ output[k].line = FirstWith(FirstLetter(i))
           ELSE Headers = {}

\* the matched entries that open a group: the first one and every one whose
\* first letter differs from that of the matched entry before it
GroupStarts ==
    {ResultLines[n] : n \in {m \in 1..Len(ResultLines) :
                                m = 1 \/ FirstLetter(ResultLines[m]) # FirstLetter(ResultLines[m - 1])}}

\* C23 (amended): when the term starts with '@' a letter header is printed
\* directly before a matched entry if and only if that entry is the first
\* one or its first letter differs from that of the matched entry before
\* it, and the header shows that letter; otherwise no header is printed.
C23_HeaderPerLetterChange ==
    (Done /\ IsHeadwordQuery)
        => IF StartsWith(query.term, <<"@">>)
           THEN /\ {output[k].line : k \in Headers} = GroupStarts
                /\ \A j, k \in Headers : output[j].line = output[k].line => j = k
                /\ \A k \in Headers :
                      /\ output[k].text = <<FirstLetter(output[k].line)>>
                      /\ k < Len(output)
                      /\ output[k + 1].kind = "entry"
                      /\ output[k + 1].line = output[k].line
           ELSE Headers = {}

\* a letter comes back after another one: more headers than letters
C23_Witness ==
    /\ Done
    /\ IsHeadwordQuery
    /\ StartsWith(query.term, <<"@">>)
    /\ Cardinality(Headers) > Cardinality({FirstLetter(i) : i \in ResultSet})

----------------------------------------------------------------------------
(* C24: the end-to-end example of the free-text search *)

\* the query %stort was run on the two-line document of the entry 'hus'
StortSearched ==
    /\ Done
    /\ content = HusDocument
    /\ query.cmd = "search"
    /\ query.term = <<"%", "s", "t", "o", "r", "t">>

\* C24 (as claimed): on the document of the entry 'hus' and its sub-line
\* '   (bullet) et stort hus (a big house)' the query %stort returns the
\* entry 'hus', matched through the sub-line; the sub-line is not returned
\* as a main entry of its own.
C24_StortFindsHus ==
    StortSearched
        => /\ matches_to_print # << >>
           /\ matches_to_print[1].line = 1
           /\ \A k \in 1..Len(matches_to_print) :
                 matches_to_print[k].line = 2
                    => ~StartsWith(matches_to_print[k].text, <<"-", " ">>)

\* the other queries of the example do return the entry 'hus'
HusFoundByHeadword ==
    (Done /\ content = HusDocument /\ IsHeadwordQuery) => 1 \in ResultSet

----------------------------------------------------------------------------
(* C25, C27: highlighting *)

\* the markers colored() puts around a highlighted run
MatchOpen == Sgr(ColorCode("on_yellow")) \o Sgr(ColorCode("grey"))

Reset == Sgr(<<"0">>)

\* a highlight function was called and has returned
Highlighted == Done /\ query.cmd \in {"highlight_text", "highlight_match", "highlight_head"}

\* its argument, its result, and the text it looks for
Source == content[1]

Result == output[1].text

Needle == IF query.cmd = "highlight_match" THEN StripAt(query.term) ELSE query.term

\* the highlighted runs of out: what stands between MatchOpen and the next Reset
HighlightRuns(out) ==
    {Slice(out, k + Len(MatchOpen), Find(out, Reset, k + Len(MatchOpen)) - 1) :
        k \in {j \in 1..Len(out) : OccursAt(out, MatchOpen, j)}}

\* out without the markers of its highlighted runs
RECURSIVE Unhighlight(_, _)
Unhighlight(out, from) ==
    LET Open(k) ==
            LET Close(c) ==
                    Slice(out, from, k - 1) \o Slice(out, k + Len(MatchOpen), c - 1)
                    \o Unhighlight(out, c + Len(Reset))
            IN  IF k = 0 THEN Slice(out, from, Len(out))
                ELSE Close(Find(out, Reset, k + Len(MatchOpen)))
    IN  Open(Find(out, MatchOpen, from))

\* the source as it is styled before the term is looked for: highlight_text
\* turns the emphasis spans into colours, the headword loops colour the
\* stretches between the runs
Styled ==
    IF query.cmd = "highlight_text" THEN MarkupToColor(Source) ELSE Source

\* out without its well-formed SGR sequences ESC [ digits m
RECURSIVE StripSgr(_, _)
StripSgr(out, from) ==
    IF from > Len(out) THEN << >>
    ELSE LET End(e) ==
                 IF /\ out[from] = "ESC"
                    /\ from + 1 <= Len(out)
                    /\ out[from + 1] = "["
                    /\ e <= Len(out)
                    /\ out[e] = "m"
                 THEN StripSgr(out, e + 1)
                 ELSE <<out[from]>> \o StripSgr(out, from + 1)
         IN  End(CHOOSE e \in (from + 2)..(Len(out) + 1) :
                    /\ e = Len(out) + 1 \/ out[e] \notin Digits
                    /\ \A d \in (from + 2)..(e - 1) : out[d] \in Digits)

\* C25 (as claimed): highlighting is case-insensitive and case-preserving:
\* every highlighted run of the result equals the term ignoring case and is
\* a substring of the source text in the source's casing, and the
\* characters around the runs are the source characters in order.
C25_CasePreservingHighlight ==
    Highlighted
        => /\ \A run \in HighlightRuns(Result) :
                 Lower(run) = Lower(Needle) /\ Contains(Source, run)
           /\ StripSgr(Result, 1) = StripSgr(Styled, 1)

\* the part of C25 the code keeps: where no emphasis span is converted
\* before the term is looked for (highlight_match, the headword loop of
\* fulltext_search) the runs are substrings of the source in its casing
CasePreservingInHeadwords ==
    (Highlighted /\ query.cmd # "highlight_text")
        => /\ \A run \in HighlightRuns(Result) :
                 Lower(run) = Lower(Needle) /\ Contains(Source, run)
           /\ StripSgr(Result, 1) = Source

\* C27 (as claimed): highlight_text never matches its own styling: taking
\* the highlight markers away leaves the styled text as it was, and
\* removing all styling markers from the result yields the input text with
\* its emphasis delimiters removed (no styling marker is broken by a
\* highlight put inside it).
C27_NoHighlightInStyling ==
    (Highlighted /\ query.cmd = "highlight_text")
        => /\ Unhighlight(Result, 1) = MarkupToColor(Source)
           /\ StripSgr(Result, 1) = StripSgr(MarkupToColor(Source), 1)

----------------------------------------------------------------------------
(* C26: the context lines of the free-text search *)

\* the lines of the block of the main entry at line i: up to the next
\* main-entry line
Block(i) == (i + 1)..(BlockEnd(content, i) - 1)

\* line j contains the term of the free-text query, ignoring case
HasFreeTerm(j) == Contains(Lower(content[j]), Lower(FreeTerm))

\* a sub-line of the block of i that uses the bold sub-entry pattern
\* matches the term
SiblingMatches(i) == \E k \in Block(i) : IsSubentry(content[k]) /\ HasFreeTerm(k)

\* C26 (as claimed): within the block of a matched main entry a line that
\* uses the bold sub-entry pattern is kept if and only if it contains the
\* term, and a non-blank line that does not use the pattern is added to
\* the result only when a sibling sub-line of the same entry matches the
\* term.
C26_ContextLineRule ==
    (Done /\ IsFulltextQuery /\ FreeTerm # << >>)
        => \A i \in ResultSet \cap MainEntries :
              \A j \in Block(i) :
                 /\ IsSubentry(content[j]) => (j \in ResultSet <=> HasFreeTerm(j))
                 /\ (~IsSubentry(content[j]) /\ j \in ResultSet) => SiblingMatches(i)

\* what the code does: the bold sub-entry lines of the block are kept if
\* and only if they contain the term; every other non-blank line of the
\* block is added, whether or not a sibling matches
ContextLinesUnconditional ==
    (Done /\ IsFulltextQuery /\ FreeTerm # << >>)
        => \A i \in ResultSet \cap MainEntries :
              \A j \in Block(i) :
                 /\ IsSubentry(content[j]) => (j \in ResultSet <=> HasFreeTerm(j))
                 /\ ~IsSubentry(content[j]) => (j \in ResultSet <=> ~IsBlank(content[j]))

----------------------------------------------------------------------------
(* C28: the headword of the search and the headword of the listing *)

\* the lines of the form '- **H** ...': the entries of the category listing
BoldEntries ==
    {i \in 1..Len(content) : IsListEntry(content[i]) /\ word_match(content[i]).ok}

\* the bold span H of such a line, the headword the listing uses
BoldSpan(i) == word_match(content[i]).word

\* C28 (as claimed): for every line '- **H** ...' the headword the plain
\* search matches against is the whole bold span H, the headword of the
\* category listing; a plain search for normalized H returns the entry as
\* an exact match, also when H is a phrase with spaces.
C28_HeadwordAgreement ==
    (Done /\ IsPlainQuery /\ (isatty \/ query.term # << >>))
        => \A i \in BoldEntries :
              /\ HeadTerm(content[i]) = BoldSpan(i)
              /\ Lower(normalize_headword(BoldSpan(i))) = Lower(query.term)
                    => i \in ResultSet

\* the part of C28 the code keeps: a bold span without blank is the headword
\* of the search as well
HeadwordAgreementSingleToken ==
    (Done /\ IsPlainQuery /\ (isatty \/ query.term # << >>))
        => \A i \in BoldEntries :
              ~Contains(BoldSpan(i), <<" ">>)
                 => /\ HeadTerm(content[i]) = BoldSpan(i)
                    /\ Lower(normalize_headword(BoldSpan(i))) = Lower(query.term)
                          => i \in ResultSet

----------------------------------------------------------------------------
(* C29: the answer options of a quiz question *)

\* run_quiz has printed the options of a question and waits for the answer
QuestionShown == pc = "answer" /\ query.cmd = "quiz"

\* the definition of the word being asked
CorrectDef == session.not_remembered[session.k].definition

\* C29: whenever run_quiz presents a question, the option list has exactly
\* five options (labelled a to e), the options are pairwise distinct and the
\* correct definition occurs exactly once among them
C29_QuizOptionsWellFormed ==
    QuestionShown =>
        /\ Len(session.options) = 5
        /\ \A a, b \in 1..Len(session.options) : a # b => session.options[a] # session.options[b]
        /\ Cardinality({k \in 1..Len(session.options) : session.options[k] = CorrectDef}) = 1

\* what the options do satisfy: at most five of them, the correct definition
\* exactly once
CorrectOptionOnce ==
    QuestionShown =>
        /\ Len(session.options) \in 1..5
        /\ Cardinality({k \in 1..Len(session.options) : session.options[k] = CorrectDef}) = 1

\* a question whose options are five distinct definitions is presented too
FiveDistinctOptions ==
    /\ QuestionShown
    /\ Len(session.options) = 5
    /\ Cardinality({session.options[k] : k \in 1..5}) = 5

----------------------------------------------------------------------------
(* C30: the review loop of the flashcard and quiz sessions *)

\* the positions of the round headers in the output
RoundHeaders == {p \in 1..Len(output) : output[p].kind = "round"}

RoundsStarted == Cardinality(RoundHeaders)

\* the position of the header of round r
HeaderOf(r) == CHOOSE p \in RoundHeaders : output[p].round = r

\* the entries (by their position in the document) with an event of one of
\* the kinds in round r
EntriesOf(kinds, r) ==
    {output[p].line : p \in {q \in 1..Len(output) :
                                output[q].kind \in kinds /\ output[q].round = r}}

\* the entries presented in round r, marked for review (answered wrongly) in
\* it, marked remembered (answered correctly) in it
Presented(r) == EntriesOf({"word"}, r)

Reviewed(r) == EntriesOf({"review", "incorrect"}, r)

Remembered(r) == EntriesOf({"remembered", "correct"}, r)

\* every word of round r, of n rounds started, has been answered
EndedOf(r, n) ==
    /\ r \in 1..n
    /\ r < n \/ pc \in {"round", "done"}

RoundEnded(r) == EndedOf(r, RoundsStarted)

\* the number of remaining words the header at position p announces
Remaining(p) == output[p].remaining

Congratulated == \E p \in 1..Len(output) : output[p].kind = "congratulations"

Terminated == \E p \in 1..Len(output) : output[p].kind = "terminated"

\* round r of n by itself: its header, at position p, announces the words it
\* presents, and each word is marked at most once, either for review or
\* remembered
RoundFacts(r, n, p, presented, reviewed, remembered) ==
    /\ (r = n /\ pc \in {"word", "answer"}) => Remaining(p) = Len(session.not_remembered)
    /\ EndedOf(r, n) => Cardinality(presented) = Remaining(p)
    /\ reviewed \cup remembered \subseteq presented
    /\ reviewed \cap remembered = {}
    /\ (EndedOf(r, n) /\ pc # "terminated") => reviewed \cup remembered = presented

\* round r and the round after it, with headers at p and q: the words of the
\* next round are the words marked for review, and their number does not
\* increase
StepFacts(r, n, p, q, reviewed, remembered, next) ==
    /\ EndedOf(r, n)
    /\ next \subseteq reviewed
    /\ next \cap remembered = {}
    /\ Remaining(q) = Cardinality(reviewed)
    /\ Remaining(q) <= Remaining(p)
    /\ EndedOf(r + 1, n) => next = reviewed

\* the n rounds follow each other as claimed, where P[r], R[r] and M[r] are
\* the entries presented, marked for review and remembered in round r: the
\* words of round r + 1 are the words of round r that were marked for review,
\* a remembered word does not come back, the announced number of remaining
\* words never increases, and a round follows exactly when a word was marked
\* for review
Progress(n, P, R, M) ==
    /\ \A r \in 1..n : RoundFacts(r, n, HeaderOf(r), P[r], R[r], M[r])
    /\ \A r \in 1..(n - 1) : StepFacts(r, n, HeaderOf(r), HeaderOf(r + 1), R[r], M[r], P[r + 1])
    /\ \A r \in 1..(n - 1) : \A later \in (r + 1)..n : M[r] \cap P[later] = {}
    /\ (n > 0 /\ pc = "done") => R[n] = {}
    /\ (n > 0 /\ pc = "round" /\ session.not_remembered # << >>) => R[n] # {}

RoundsProgress ==
    Progress(RoundsStarted,
             [r \in 1..RoundsStarted |-> Presented(r)],
             [r \in 1..RoundsStarted |-> Reviewed(r)],
             [r \in 1..RoundsStarted |-> Remembered(r)])

\* Ctrl+C ends the session at once: "Quiz terminated." is the last thing
\* printed, directly after the word, the definition or the echoed key, and no
\* congratulation is printed
CtrlCEnds ==
    /\ pc = "terminated" <=> Terminated
    /\ \A p \in 1..Len(output) :
          (output[p].kind = "echo" /\ output[p].text = <<"ETX">>) =>
              p < Len(output) /\ output[p + 1].kind = "terminated"
    /\ \A p \in 1..Len(output) :
          output[p].kind = "terminated" =>
              /\ p = Len(output)
              /\ p > 1
              /\ output[p - 1].kind \in {"word", "entry_line", "echo"}
              /\ ~Congratulated

\* some round has ended with no word marked for review
RoundEndedClean == \E r \in 1..RoundsStarted : RoundEnded(r) /\ Reviewed(r) = {}

\* C30 as stated: the round-to-round progress, Ctrl+C, and the congratulation
\* printed exactly when a round ends with no word marked for review (the
\* message is printed by the step after the last answer, so "when" is read
\* once the session has left the loop)
C30_ReviewLoopProgress ==
    /\ RoundsProgress
    /\ CtrlCEnds
    /\ Congratulated => RoundEndedClean
    /\ (RoundEndedClean /\ pc # "round") => Congratulated

\* C30, amended: the congratulation is printed exactly when the session
\* leaves the loop with no word remaining: a round has ended with no word
\* marked for review, or the session was started with a word count of zero
\* and has no round at all
C30_ReviewLoopOrEmptySession ==
    /\ RoundsProgress
    /\ CtrlCEnds
    /\ Congratulated <=>
          /\ pc = "done"
          /\ session # NoSession
          /\ RoundsStarted = 0 \/ RoundEndedClean
    /\ (RoundEndedClean /\ pc # "round") => Congratulated
    /\ (session # NoSession /\ RoundsStarted = 0 /\ pc = "done") => session.not_remembered = << >>

\* a session of three rounds that ends with the congratulation: one word was
\* remembered in the first round, another one kept for review twice
C30_Witness ==
    /\ pc = "done"
    /\ Congratulated
    /\ RoundsStarted = 3
    /\ Remembered(1) # {}
    /\ Reviewed(1) # {}
    /\ Reviewed(2) # {}

====
